---- MODULE Spec2Model ----
(***************************************************************************)
(* Verification model of the telemetry sidecar collector                   *)
(* (src/opentel_collector): the bounded in-memory buffer, the priority     *)
(* buffer, the file tailer with the composite parser's success/failure     *)
(* behaviour, and the retrying HTTP transport.                             *)
(*                                                                         *)
(* Each subsystem has its own specification over the shared variables:     *)
(*   SpecBuffer   TelemetryBuffer / PriorityTelemetryBuffer (buffer.rs)    *)
(*   SpecSend     HttpTransport::send_batch (transport.rs)                 *)
(*   SpecTail     SidecarCollector::monitor_file and the parser it calls   *)
(*                (collector.rs, log_parser.rs), the file being appended   *)
(*                to, truncated, rotated, removed and recreated            *)
(*   SpecTailFair the same for an append-only file, with the tail task     *)
(*                scheduled fairly                                         *)
(***************************************************************************)
EXTENDS Integers, Sequences, FiniteSets, TLC

VARIABLES
    mode,       \* which buffer type was constructed: "plain" or "priority"
    config,     \* the max_size / batch_size the buffer was constructed with
    buffers,    \* name -> TelemetryBuffer (logs, spans, max_size, batch_size)
    nextId,     \* identity of the next record handed to add_log / add_span
    hist,       \* per buffer and queue: the ids enqueued, dropped, drained, cleared
    lastOp,     \* what the last buffer operation did and returned
    transport,  \* HttpTransport: max_retries, retry_backoff_ms
    send,       \* the send_batch call in progress: position, locals, result, history
    file,       \* the tailed path on disk: exists, content, generation (which file it is)
    file_state, \* FileState of the path: last_position, last_modified
    tail,       \* the monitor_file task: position, consecutive_errors, start_position
    tailHist,   \* per line: times enqueued; per generation: first read; last tick's result
    flush,      \* the flush task and the shutdown of the collector, and what they sent
    lock,       \* the buffer's two queue locks and the operations running on it;
                \* under SpecPriority the stats call running on the priority buffer
    parse,      \* a line given to a parser, the settings, and the record it produced
    io          \* every task's await point and the locks it holds there

bufVars == <<mode, config, buffers, nextId, hist, lastOp>>

txVars == <<transport, send>>

tailVars == <<file, file_state, tail, tailHist>>

restVars == <<flush, lock, parse, io>>

vars == <<mode, config, buffers, nextId, hist, lastOp, transport, send,
          file, file_state, tail, tailHist, flush, lock, parse, io>>

\* the parts of the state a specification does not use
NoFlush == [pc |-> "off"]

NoLock == [pc |-> "off"]

NoParse == [pc |-> "off"]

NoIo == [pc |-> "off"]

(***************************************************************************)
(* Bounds of the model                                                     *)
(***************************************************************************)
MaxCap == 4         \* max_size is drawn from 0..MaxCap
MaxBatch == 2       \* batch_size is drawn from 0..MaxBatch
MaxRecords == 4     \* records enqueued in one behaviour

\* Ok(None) of drain_batch; Ok(Some(batch)) carries some = TRUE
NoBatch == [some |-> FALSE, logs |-> <<>>, spans |-> <<>>]

SomeBatch(logs, spans) == [some |-> TRUE, logs |-> logs, spans |-> spans]

Min(a, b) == IF a <= b THEN a ELSE b
Max(a, b) == IF a >= b THEN a ELSE b

BufferNames == {"plain", "high", "normal"}
QueueNames == {"logs", "spans"}

(***************************************************************************)
(* VecDeque primitives used by buffer.rs                                   *)
(***************************************************************************)
\* VecDeque::pop_front: removes the first element, a no-op on an empty deque
pop_front(q) == IF Len(q) = 0 THEN q ELSE SubSeq(q, 2, Len(q))

\* VecDeque::drain(..n): the first n elements, in order
drain_front(q, n) == SubSeq(q, 1, n)

\* what VecDeque::drain(..n) leaves in the deque
drain_rest(q, n) == SubSeq(q, n + 1, Len(q))

RECURSIVE concat(_, _)
RECURSIVE flush_all_loop(_, _, _)

(***************************************************************************)
(* TelemetryBuffer (buffer.rs:12-162)                                      *)
(***************************************************************************)
TelemetryBuffer_new(max_size, batch_size) ==
    [logs |-> <<>>, spans |-> <<>>, max_size |-> max_size, batch_size |-> batch_size]

\* the queue after add_log / add_span: evict the oldest when at cap, then push
enqueue_NoEvict(q, max_size, e) == Append(q, e)

enqueue_EvictNewest(q, max_size, e) ==
    Append(IF Len(q) >= max_size /\ Len(q) > 0 THEN SubSeq(q, 1, Len(q) - 1) ELSE q, e)

enqueue(q, max_size, e) ==
    Append(IF Len(q) >= max_size THEN pop_front(q) ELSE q, e)

add_log(b, e) == [b EXCEPT !.logs = enqueue(b.logs, b.max_size, e)]

add_span(b, e) == [b EXCEPT !.spans = enqueue(b.spans, b.max_size, e)]

\* drain_batch: the returned batch (NoBatch when both counts are zero) and the buffer left
drain_batch_EmitEmpty(b) ==
    LET log_count == Min(b.batch_size, Len(b.logs))
        span_count == Min(b.batch_size, Len(b.spans))
    IN  [batch |-> SomeBatch(drain_front(b.logs, log_count),
                              drain_front(b.spans, span_count)),
         buf |-> [b EXCEPT !.logs = drain_rest(b.logs, log_count),
                           !.spans = drain_rest(b.spans, span_count)]]

drain_batch_FromBack(b) ==
    LET log_count == Min(b.batch_size, Len(b.logs))
        span_count == Min(b.batch_size, Len(b.spans))
    IN  IF log_count = 0 /\ span_count = 0
        THEN [batch |-> NoBatch, buf |-> b]
        ELSE [batch |-> SomeBatch(drain_rest(b.logs, Len(b.logs) - log_count),
                                   drain_rest(b.spans, Len(b.spans) - span_count)),
              buf |-> [b EXCEPT !.logs = drain_front(b.logs, Len(b.logs) - log_count),
                                !.spans = drain_front(b.spans, Len(b.spans) - span_count)]]

drain_batch_LosesRecords(b) ==
    LET log_count == Min(b.batch_size, Len(b.logs))
        span_count == Min(b.batch_size, Len(b.spans))
    IN  IF log_count = 0 /\ span_count = 0
        THEN [batch |-> NoBatch, buf |-> b]
        ELSE [batch |-> SomeBatch(drain_front(b.logs, Min(1, log_count)),
                                   drain_front(b.spans, Min(1, span_count))),
              buf |-> [b EXCEPT !.logs = drain_rest(b.logs, log_count),
                                !.spans = drain_rest(b.spans, span_count)]]

drain_batch(b) ==
    LET log_count == Min(b.batch_size, Len(b.logs))
        span_count == Min(b.batch_size, Len(b.spans))
    IN  IF log_count = 0 /\ span_count = 0
        THEN [batch |-> NoBatch, buf |-> b]
        ELSE [batch |-> SomeBatch(drain_front(b.logs, log_count),
                                   drain_front(b.spans, span_count)),
              buf |-> [b EXCEPT !.logs = drain_rest(b.logs, log_count),
                                !.spans = drain_rest(b.spans, span_count)]]

sizes(b) == <<Len(b.logs), Len(b.spans)>>

has_data(b) == sizes(b)[1] > 0 \/ sizes(b)[2] > 0

clear(b) == [b EXCEPT !.logs = <<>>, !.spans = <<>>]

\* concatenation of one queue's part of every batch, in batch order
concat(batches, k) ==
    IF batches = <<>> THEN <<>>
    ELSE batches[1][k] \o concat(SubSeq(batches, 2, Len(batches)), k)

\* flush_all's while-let loop: drain_batch is called until it returns None.
\* calls counts the drain_batch calls still allowed; a loop that has not
\* ended when they are used up is reported as not terminated.
flush_all_loop(b, batches, calls) ==
    IF calls = 0 THEN [terminated |-> FALSE, batches |-> batches, buf |-> b]
    ELSE LET r == drain_batch(b)
         IN  IF r.batch.some
             THEN flush_all_loop(r.buf, Append(batches, r.batch), calls - 1)
             ELSE [terminated |-> TRUE, batches |-> batches, buf |-> b]

\* TelemetryBuffer::flush_all: one drain_batch call per queued record is
\* enough when every Some batch takes a record, and one more returns None
flush_all(b) == flush_all_loop(b, <<>>, Len(b.logs) + Len(b.spans) + 1)

\* TelemetryBuffer::should_flush on the sizes read
should_flush(b) ==
    \/ Len(b.logs) >= b.batch_size
    \/ Len(b.spans) >= b.batch_size
    \/ Len(b.logs) >= (b.max_size * 3) \div 4
    \/ Len(b.spans) >= (b.max_size * 3) \div 4

(***************************************************************************)
(* PriorityTelemetryBuffer (buffer.rs:184-269)                             *)
(***************************************************************************)
PriorityTelemetryBuffer_new(cfg) ==
    [high   |-> TelemetryBuffer_new(cfg.max_size \div 4, cfg.batch_size \div 2),
     normal |-> TelemetryBuffer_new((cfg.max_size * 3) \div 4, cfg.batch_size)]

\* which inner buffer PriorityTelemetryBuffer::add_log / add_span routes to
priority_target(high_priority) == IF high_priority THEN "high" ELSE "normal"

\* PriorityTelemetryBuffer::drain_batch: the inner buffer drained, or "none"
priority_drain_source(high, normal) ==
    IF drain_batch(high).batch.some THEN "high"
    ELSE IF drain_batch(normal).batch.some THEN "normal"
    ELSE "none"

(***************************************************************************)
(* History bookkeeping (not program state)                                 *)
(***************************************************************************)
EmptyHist == [enq |-> <<>>, dropped |-> <<>>, drained |-> <<>>, cleared |-> <<>>]

NoOp == [op |-> "none"]

Range(q) == {q[i] : i \in DOMAIN q}

\* the records of queue q that are no longer in q2
Missing(q, q2) == SelectSeq(q, LAMBDA x : x \notin Range(q2))

HistAdd(h, q, q2, e) ==
    [h EXCEPT !.enq = Append(@, e), !.dropped = @ \o Missing(q, q2)]

HistDrain(h, batchPart) == [h EXCEPT !.drained = @ \o batchPart]

HistClear(h, q) == [h EXCEPT !.cleared = @ \o q]

BatchPart(batch, k) == IF batch.some THEN batch[k] ELSE <<>>

(***************************************************************************)
(* Initial state: a freshly constructed buffer of either type              *)
(***************************************************************************)
InitBuffer ==
    /\ mode \in {"plain", "priority"}
    /\ config \in [max_size : 0..MaxCap, batch_size : 0..MaxBatch]
    /\ buffers =
         IF mode = "plain"
         THEN [n \in BufferNames |->
                 IF n = "plain" THEN TelemetryBuffer_new(config.max_size, config.batch_size)
                 ELSE TelemetryBuffer_new(0, 0)]
         ELSE [n \in BufferNames |->
                 IF n = "plain" THEN TelemetryBuffer_new(0, 0)
                 ELSE PriorityTelemetryBuffer_new(config)[n]]
    /\ nextId = 1
    /\ hist = [n \in BufferNames |-> [k \in QueueNames |-> EmptyHist]]
    /\ lastOp = NoOp
    /\ transport = [max_retries |-> 0, retry_backoff_ms |-> 0]
    /\ send = [pc |-> "idle", attempt |-> 0, last_error |-> "none", result |-> "none",
               attempts |-> 0, failures |-> 0, successes |-> 0, sleeps |-> 0,
               last_sleep |-> [mantissa |-> 0, exp |-> 0]]
    /\ file = [exists |-> FALSE, content |-> <<>>, gen |-> 0]
    /\ file_state = [last_position |-> 0, last_modified |-> 0]
    /\ tail = [pc |-> "tick", consecutive_errors |-> 0, start_position |-> 0]
    /\ tailHist = [lastTick |-> [result |-> "none", cause |-> "none"], written |-> 0]
    /\ flush = NoFlush
    /\ lock = NoLock
    /\ parse = NoParse
    /\ io = NoIo

(***************************************************************************)
(* Buffer operations                                                       *)
(***************************************************************************)
\* the buffers the constructed object owns
Owned == IF mode = "plain" THEN {"plain"} ELSE {"high", "normal"}

DoAdd(n, k) ==
    LET b == buffers[n]
        q == b[k]
        b2 == IF k = "logs" THEN add_log(b, nextId) ELSE add_span(b, nextId)
    IN  /\ nextId <= MaxRecords
        /\ buffers' = [buffers EXCEPT ![n] = b2]
        /\ hist' = [hist EXCEPT ![n][k] = HistAdd(@, q, b2[k], nextId)]
        /\ lastOp' = [op |-> "add", buf |-> n, queue |-> k, id |-> nextId,
                      lenBefore |-> Len(q), evicted |-> Missing(q, b2[k]),
                      headBefore |-> IF Len(q) > 0 THEN <<Head(q)>> ELSE <<>>]
        /\ nextId' = nextId + 1
        /\ UNCHANGED <<mode, config, txVars, tailVars, restVars>>

DoDrain(n, opname, highHeld) ==
    LET r == drain_batch(buffers[n])
    IN  /\ buffers' = [buffers EXCEPT ![n] = r.buf]
        /\ hist' = [hist EXCEPT ![n].logs = HistDrain(@, BatchPart(r.batch, "logs")),
                                ![n].spans = HistDrain(@, BatchPart(r.batch, "spans"))]
        /\ lastOp' = [op |-> opname, buf |-> n, batch |-> r.batch,
                      batch_size |-> buffers[n].batch_size, highHeld |-> highHeld,
                      source |-> IF r.batch.some THEN n ELSE "none"]
        /\ UNCHANGED <<mode, config, nextId, txVars, tailVars, restVars>>

\* TelemetryBuffer::add_log
AddLog == mode = "plain" /\ DoAdd("plain", "logs")

\* TelemetryBuffer::add_span
AddSpan == mode = "plain" /\ DoAdd("plain", "spans")

\* TelemetryBuffer::drain_batch
DrainBatch == mode = "plain" /\ DoDrain("plain", "drain", 0)

\* TelemetryBuffer::clear
Clear ==
    /\ mode = "plain"
    /\ buffers' = [buffers EXCEPT !["plain"] = clear(@)]
    /\ hist' = [hist EXCEPT !["plain"].logs = HistClear(@, buffers["plain"].logs),
                            !["plain"].spans = HistClear(@, buffers["plain"].spans)]
    /\ lastOp' = [op |-> "clear", buf |-> "plain"]
    /\ UNCHANGED <<mode, config, nextId, txVars, tailVars, restVars>>

\* PriorityTelemetryBuffer::add_log
PriorityAddLog ==
    /\ mode = "priority"
    /\ \E high_priority \in BOOLEAN : DoAdd(priority_target(high_priority), "logs")

\* PriorityTelemetryBuffer::add_span
PriorityAddSpan ==
    /\ mode = "priority"
    /\ \E high_priority \in BOOLEAN : DoAdd(priority_target(high_priority), "spans")

\* PriorityTelemetryBuffer::drain_batch: the high buffer first, else the normal one
PriorityDrainBatch ==
    /\ mode = "priority"
    /\ LET src == priority_drain_source(buffers["high"], buffers["normal"])
           held == Len(buffers["high"].logs) + Len(buffers["high"].spans)
       IN  DoDrain(IF src = "high" THEN "high" ELSE "normal", "pdrain", held)

\* TelemetryBuffer::should_flush
ShouldFlush ==
    /\ mode = "plain"
    /\ lastOp' = [op |-> "should_flush", buf |-> "plain",
                  result |-> should_flush(buffers["plain"])]
    /\ UNCHANGED <<mode, config, buffers, nextId, hist, txVars, tailVars, restVars>>

\* PriorityTelemetryBuffer::should_flush
PriorityShouldFlush ==
    /\ mode = "priority"
    /\ lastOp' = [op |-> "should_flush", buf |-> "priority",
                  result |-> should_flush(buffers["high"])
                             \/ should_flush(buffers["normal"])]
    /\ UNCHANGED <<mode, config, buffers, nextId, hist, txVars, tailVars, restVars>>

\* TelemetryBuffer::flush_all, with no other task running meanwhile
FlushAll ==
    /\ mode = "plain"
    /\ \E r \in {flush_all(buffers["plain"])} :
         /\ buffers' = [buffers EXCEPT !["plain"] = r.buf]
         /\ hist' = [hist EXCEPT
                       !["plain"].logs = HistDrain(@, concat(r.batches, "logs")),
                       !["plain"].spans = HistDrain(@, concat(r.batches, "spans"))]
         /\ lastOp' = [op |-> "flush_all", buf |-> "plain",
                       batch_size |-> buffers["plain"].batch_size,
                       terminated |-> r.terminated, batches |-> r.batches,
                       logs_before |-> buffers["plain"].logs,
                       spans_before |-> buffers["plain"].spans]
    /\ UNCHANGED <<mode, config, nextId, txVars, tailVars, restVars>>

NextBuffer ==
    \/ AddLog
    \/ AddSpan
    \/ DrainBatch
    \/ Clear
    \/ PriorityAddLog
    \/ PriorityAddSpan
    \/ PriorityDrainBatch
    \/ ShouldFlush
    \/ PriorityShouldFlush
    \/ FlushAll

(***************************************************************************)
(* HttpTransport (transport.rs:13-137)                                     *)
(***************************************************************************)
MaxRetries == 2     \* max_retries is drawn from 0..MaxRetries and the overflow values

\* width of the u64 that holds retry_backoff_ms and the computed backoff
U64Bits == 64

\* m >= 2^j, without forming 2^j
RECURSIVE GePow2(_, _)
GePow2(m, j) == IF j = 0 THEN m >= 1 ELSE GePow2(m \div 2, j - 1)

\* m modulo 2^j, without forming 2^j
RECURSIVE ModPow2(_, _)
ModPow2(m, j) == IF j = 0 THEN 0 ELSE 2 * ModPow2(m \div 2, j - 1) + (m % 2)

\* the values of max_retries and retry_backoff_ms the model draws: any u32 / u64
\* is accepted by Config::from_env and Config::validate
RetryChoices == (0..MaxRetries) \cup {U64Bits + 1}

BackoffChoices == {0, 1000}

\* one attempt's outcome: the request timed out, the client failed, or a response
Statuses == {200, 204, 400, 413, 500}

AttemptOutcomes ==
    {[kind |-> "timeout", status |-> 0], [kind |-> "network", status |-> 0]}
        \cup {[kind |-> "response", status |-> st] : st \in Statuses}

\* StatusCode::is_success
is_success(status) == 200 <= status /\ status <= 299

\* handle_response: Ok(()) for a 2xx status, else a Transport error naming the class
handle_response(status) ==
    IF is_success(status) THEN "Ok"
    ELSE IF status = 400 THEN "Bad request"
    ELSE IF status = 401 THEN "Unauthorized"
    ELSE IF status = 403 THEN "Forbidden"
    ELSE IF status = 404 THEN "Gateway endpoint not found"
    ELSE IF status = 413 THEN "Batch too large"
    ELSE IF status = 429 THEN "Rate limited"
    ELSE IF 500 <= status /\ status <= 599 THEN "Gateway server error"
    ELSE "Unexpected response"

\* send_batch_attempt: "Ok" or the error the attempt returns
send_batch_attempt(outcome) ==
    IF outcome.kind = "timeout" THEN "Request timeout"
    ELSE IF outcome.kind = "network" THEN "Http"
    ELSE handle_response(outcome.status)

\* does retry_backoff_ms * 2_u64.pow(attempt - 1) leave the u64 range
backoff_overflows(retry_backoff_ms, attempt) ==
    LET k == attempt - 1
    IN  \/ k >= U64Bits
        \/ GePow2(retry_backoff_ms, U64Bits - k)

\* the backoff slept before retry number `attempt`, as mantissa * 2^exp
\* (wrapped modulo 2^64 when the computation overflows in a wrapping build)
backoff_ms(retry_backoff_ms, attempt) ==
    LET k == attempt - 1
    IN  IF k >= U64Bits THEN [mantissa |-> 0, exp |-> 0]
        ELSE IF backoff_overflows(retry_backoff_ms, attempt)
        THEN [mantissa |-> ModPow2(retry_backoff_ms, U64Bits - k), exp |-> k]
        ELSE [mantissa |-> retry_backoff_ms, exp |-> k]

\* the loop condition of send_batch
retry_allowed_NoRetry(attempt, max_retries) == FALSE

retry_allowed_OneMore(attempt, max_retries) == attempt <= max_retries + 1

retry_allowed(attempt, max_retries) == attempt <= max_retries

\* the batches handed to send_batch: batch_id, logs and spans of a TelemetryBatch
Batches ==
    {[batch_id |-> 1, logs |-> <<1>>, spans |-> <<>>],
     [batch_id |-> 2, logs |-> <<1, 2>>, spans |-> <<3>>]}

NoBatchToSend == [batch_id |-> 0, logs |-> <<>>, spans |-> <<>>]

\* the body of one attempt's request: client.post(url).json(batch)
request_body_NoSpans(batch) == [batch EXCEPT !.spans = <<>>]

request_body(batch) == batch

NoSend ==
    [pc |-> "idle", attempt |-> 0, last_error |-> "none", result |-> "none",
     attempts |-> 0, failures |-> 0, successes |-> 0, sleeps |-> 0,
     last_sleep |-> [mantissa |-> 0, exp |-> 0],
     batch |-> NoBatchToSend, sent |-> {}]

InitSend ==
    /\ transport \in [max_retries : RetryChoices, retry_backoff_ms : BackoffChoices]
    /\ send = NoSend
    /\ mode = "plain"
    /\ config = [max_size |-> 0, batch_size |-> 0]
    /\ buffers = [n \in BufferNames |-> TelemetryBuffer_new(0, 0)]
    /\ nextId = 1
    /\ hist = [n \in BufferNames |-> [k \in QueueNames |-> EmptyHist]]
    /\ lastOp = NoOp
    /\ file = [exists |-> FALSE, content |-> <<>>, gen |-> 0]
    /\ file_state = [last_position |-> 0, last_modified |-> 0]
    /\ tail = [pc |-> "tick", consecutive_errors |-> 0, start_position |-> 0]
    /\ tailHist = [lastTick |-> [result |-> "none", cause |-> "none"], written |-> 0]
    /\ flush = NoFlush
    /\ lock = NoLock
    /\ parse = NoParse
    /\ io = NoIo

\* send_batch is called: attempt = 0, last_error = None, the loop is entered
SendBatch ==
    /\ send.pc = "idle"
    /\ \E batch \in Batches : send' = [send EXCEPT !.pc = "loop", !.batch = batch]
    /\ UNCHANGED <<transport, bufVars, tailVars, restVars>>

\* one iteration of the retry loop: an attempt and the match on its result
SendBatchAttempt ==
    /\ send.pc = "loop"
    /\ \E outcome \in AttemptOutcomes :
         LET r == send_batch_attempt(outcome)
             attempt == send.attempt + 1
             made == [send EXCEPT !.attempts = @ + 1,
                                  !.sent = @ \cup {request_body(send.batch)}]
         IN  IF r = "Ok"
             THEN send' = [made EXCEPT !.pc = "returned", !.result = "Ok",
                                       !.successes = @ + 1]
             ELSE LET failed == [made EXCEPT !.last_error = r, !.attempt = attempt,
                                             !.failures = @ + 1]
                  IN  IF retry_allowed(attempt, transport.max_retries)
                      THEN IF backoff_overflows(transport.retry_backoff_ms, attempt)
                           THEN \* overflow checks on: the task panics; off: the value wraps
                                \/ send' = [failed EXCEPT !.pc = "panicked"]
                                \/ send' = [failed EXCEPT
                                              !.pc = "sleeping", !.sleeps = @ + 1,
                                              !.last_sleep = backoff_ms(
                                                  transport.retry_backoff_ms, attempt)]
                           ELSE send' = [failed EXCEPT
                                           !.pc = "sleeping", !.sleeps = @ + 1,
                                           !.last_sleep = backoff_ms(
                                               transport.retry_backoff_ms, attempt)]
                      ELSE send' = [failed EXCEPT !.pc = "returned", !.result = r]
    /\ UNCHANGED <<transport, bufVars, tailVars, restVars>>

\* the backoff sleep ends and the loop condition is evaluated again
BackoffElapsed ==
    /\ send.pc = "sleeping"
    /\ send' = [send EXCEPT !.pc =
                  IF retry_allowed(send.attempt, transport.max_retries)
                  THEN "loop" ELSE "returned",
                            !.result =
                  IF retry_allowed(send.attempt, transport.max_retries)
                  THEN @ ELSE send.last_error]
    /\ UNCHANGED <<transport, bufVars, tailVars, restVars>>

NextSend ==
    \/ SendBatch
    \/ SendBatchAttempt
    \/ BackoffElapsed

(***************************************************************************)
(* Composite parser, as far as the tailer depends on it                    *)
(* (log_parser.rs:28-171, 259-370).  A line is a sequence of bytes; the    *)
(* byte "J" stands for the text of one complete structured object that has *)
(* a message and a span_id, "{" for an opening brace that no object        *)
(* follows, "x" for any other visible character.                           *)
(***************************************************************************)
Whitespace == {" ", "\r", "\n"}

RECURSIVE trim_start(_)
trim_start(l) ==
    IF Len(l) > 0 /\ l[1] \in Whitespace THEN trim_start(SubSeq(l, 2, Len(l))) ELSE l

RECURSIVE trim_end(_)
trim_end(l) ==
    IF Len(l) > 0 /\ l[Len(l)] \in Whitespace THEN trim_end(SubSeq(l, 1, Len(l) - 1)) ELSE l

\* str::trim
trim(l) == trim_end(trim_start(l))

\* line.trim().starts_with('{')
starts_with_brace(l) == Len(trim(l)) > 0 /\ trim(l)[1] \in {"J", "{"}

\* serde_json::from_str(line) succeeds: the line is one object, whitespace around it
json_from_str_ok(l) == trim(l) = <<"J">>

\* JsonLogParser::parse_log: "Err" when the line is no structured value
JsonLogParser_parse_log(l) == IF json_from_str_ok(l) THEN "Some" ELSE "Err"

\* JsonLogParser::parse_span: "Err" when the line is no structured value
JsonLogParser_parse_span(l) == IF json_from_str_ok(l) THEN "Some" ELSE "Err"

\* RegexLogParser::parse_log: a pattern's record, or the whole line as an Info record
RegexLogParser_parse_log(l) == "Some"

\* CompositeLogParser::parse_log: the structured result, else the textual fallback
CompositeLogParser_parse_log(l) ==
    IF starts_with_brace(l) /\ JsonLogParser_parse_log(l) = "Some"
    THEN "Some"
    ELSE RegexLogParser_parse_log(l)

\* CompositeLogParser::parse_span
CompositeLogParser_parse_span_Swallow(l) ==
    IF starts_with_brace(l) /\ JsonLogParser_parse_span(l) = "Some" THEN "Some" ELSE "None"

CompositeLogParser_parse_span(l) ==
    IF starts_with_brace(l) THEN JsonLogParser_parse_span(l) ELSE "None"

\* process_log_line: was a log enqueued, was a span enqueued, did it return Err
process_log_line(l) ==
    LET log == CompositeLogParser_parse_log(l)
        span == CompositeLogParser_parse_span(l)
    IN  IF log = "Err" THEN [log |-> FALSE, span |-> FALSE, err |-> TRUE]
        ELSE [log |-> log = "Some", span |-> span = "Some", err |-> span = "Err"]

(***************************************************************************)
(* File tailer (collector.rs:128-271)                                      *)
(***************************************************************************)
MaxFile == 4        \* bytes written to the path in one behaviour
MaxGen == 1         \* times the file is truncated, rotated or recreated
TailBufferCap == 1  \* max_buffer_size of the collector's buffer

MAX_CONSECUTIVE_ERRORS == 10

\* what one write appends: a text line, a structured line, a line with a lone
\* opening brace, an empty line, or the beginning of a line
Chunks == {<<"x", "\n">>, <<"J", "\n">>, <<"{", "\n">>, <<"\n">>, <<"x">>}

\* Option<SystemTime>: None, or the file's modification time (every write moves it)
NoTime == 0

modified(f) == f.gen * (MaxFile + 1) + Len(f.content) + 1

\* index of the first newline at or after i, else the last index
RECURSIVE line_end(_, _)
line_end(content, i) ==
    IF i >= Len(content) THEN Len(content)
    ELSE IF content[i] = "\n" THEN i
    ELSE line_end(content, i + 1)

\* BufReader::read_line at byte offset pos: through the next newline, or to end-of-file
read_line(content, pos) ==
    IF pos >= Len(content) THEN <<>>
    ELSE SubSeq(content, pos + 1, line_end(content, pos + 1))

\* strip one trailing newline and at most one carriage return before it
strip_line_ending(l) ==
    IF Len(l) > 0 /\ l[Len(l)] = "\n"
    THEN LET a == SubSeq(l, 1, Len(l) - 1)
         IN  IF Len(a) > 0 /\ a[Len(a)] = "\r" THEN SubSeq(a, 1, Len(a) - 1) ELSE a
    ELSE l

\* the bytes a file can hold
Bytes == UNION {{c[i] : i \in 1..Len(c)} : c \in Chunks}

\* what the read loop holds between two iterations
LoopStates ==
    [pos : Nat, lines_read : Nat, subs : Seq([off : Nat, log : BOOLEAN, span : BOOLEAN])]

\* the read loop of read_file_from_position from offset pos: the position
\* reached, the lines handed to process_log_line and how the loop ended.
\* loop is one iteration from the loop's state st, with_line the rest of the
\* iteration once read_line has returned raw, with_result the end of the
\* iteration once process_log_line has returned r.
read_loop(content, pos, lines_read, subs) ==
    LET loop[st \in LoopStates] ==
          LET with_line[raw \in Seq(Bytes)] ==
                LET with_result[r \in [log : BOOLEAN, span : BOOLEAN, err : BOOLEAN]] ==
                      LET subs2 == Append(st.subs,
                                     [off |-> st.pos, log |-> r.log, span |-> r.span])
                      IN  IF r.err
                          THEN [err |-> "json", pos |-> st.pos + Len(raw),
                                lines_read |-> st.lines_read + 1, subs |-> subs2]
                          ELSE loop[[pos |-> st.pos + Len(raw),
                                     lines_read |-> st.lines_read + 1, subs |-> subs2]]
                IN  IF Len(raw) = 0
                    THEN [err |-> "none", pos |-> st.pos,
                          lines_read |-> st.lines_read, subs |-> st.subs]
                    ELSE IF Len(trim(strip_line_ending(raw))) = 0
                    THEN loop[[st EXCEPT !.pos = @ + Len(raw), !.lines_read = @ + 1]]
                    ELSE with_result[process_log_line(strip_line_ending(raw))]
          IN  with_line[read_line(content, st.pos)]
    IN  loop[[pos |-> pos, lines_read |-> lines_read, subs |-> subs]]

\* the decision of check_and_read_file under the file-state lock
check_decision_NoTruncation(last_position, last_modified, current_size, current_modified) ==
    IF last_modified # current_modified \/ current_size > last_position
    THEN [should_read |-> TRUE, start_position |-> last_position, reset |-> FALSE]
    ELSE [should_read |-> FALSE, start_position |-> last_position, reset |-> FALSE]

check_decision_ResetOnChange(last_position, last_modified, current_size, current_modified) ==
    IF current_size < last_position \/ last_modified # current_modified
    THEN [should_read |-> TRUE, start_position |-> 0, reset |-> TRUE]
    ELSE IF current_size > last_position
    THEN [should_read |-> TRUE, start_position |-> last_position, reset |-> FALSE]
    ELSE [should_read |-> FALSE, start_position |-> last_position, reset |-> FALSE]

check_decision(last_position, last_modified, current_size, current_modified) ==
    IF current_size < last_position
    THEN [should_read |-> TRUE, start_position |-> 0, reset |-> TRUE]
    ELSE IF last_modified # current_modified \/ current_size > last_position
    THEN [should_read |-> TRUE, start_position |-> last_position, reset |-> FALSE]
    ELSE [should_read |-> FALSE, start_position |-> last_position, reset |-> FALSE]

\* monitor_file's match on the tick's result: the task's next position and counter
after_tick_Fatal(t, ok) ==
    IF ok
    THEN [t EXCEPT !.pc = "tick", !.consecutive_errors = 0]
    ELSE [t EXCEPT !.pc = "failed", !.consecutive_errors = @ + 1]

after_tick_KeepsCount(t, ok) ==
    IF ok
    THEN [t EXCEPT !.pc = "tick"]
    ELSE IF t.consecutive_errors + 1 >= MAX_CONSECUTIVE_ERRORS
    THEN [t EXCEPT !.pc = "paused", !.consecutive_errors = @ + 1]
    ELSE [t EXCEPT !.pc = "tick", !.consecutive_errors = @ + 1]

after_tick(t, ok) ==
    IF ok
    THEN [t EXCEPT !.pc = "tick", !.consecutive_errors = 0]
    ELSE IF t.consecutive_errors + 1 >= MAX_CONSECUTIVE_ERRORS
    THEN [t EXCEPT !.pc = "paused", !.consecutive_errors = @ + 1]
    ELSE [t EXCEPT !.pc = "tick", !.consecutive_errors = @ + 1]

\* history: saturating count of the enqueues of the line that starts at an offset
SatInc(c) == IF c >= 2 THEN 2 ELSE c + 1

LineId(gen, off) == <<gen, off>>

RECURSIVE CountSubs(_, _)
CountSubs(enq, subs) ==
    IF subs = <<>> THEN enq
    ELSE CountSubs(
           IF Head(subs).log THEN [enq EXCEPT ![Head(subs).off] = SatInc(@)] ELSE enq,
           Tail(subs))

\* the buffer after the add_log / add_span calls of the lines read
RECURSIVE enqueue_lines(_, _, _)
enqueue_lines(b, gen, subs) ==
    IF subs = <<>> THEN b
    ELSE LET e == LineId(gen, Head(subs).off)
             b1 == IF Head(subs).log THEN add_log(b, e) ELSE b
             b2 == IF Head(subs).span THEN add_span(b1, e) ELSE b1
         IN  enqueue_lines(b2, gen, Tail(subs))

\* offsets at which a line starts in content
LineStarts(content) ==
    {0} \cup {i \in 1..Len(content) : content[i] = "\n"}

\* the line that starts at offset off, with its newline if it has one
LineAt(content, off) == read_line(content, off)

\* a complete (newline-terminated) line that is not whitespace-only starts at off
CompleteNonBlankLineAt(content, off) ==
    /\ off \in LineStarts(content)
    /\ off < Len(content)
    /\ LET raw == LineAt(content, off)
       IN  raw[Len(raw)] = "\n" /\ Len(trim(raw)) > 0

\* history of the current generation of the file: enqueues per line start,
\* the first read of the generation, and the last tick's result
NoFirstRead == [idle |-> TRUE, start |-> -1, size |-> -1, offset |-> -1]

NewGeneration(h, idle) ==
    [h EXCEPT !.enq = [off \in 0..MaxFile |-> 0],
              !.first = [NoFirstRead EXCEPT !.idle = idle]]

EmptyTailHist ==
    [enq |-> [off \in 0..MaxFile |-> 0],
     first |-> NoFirstRead,
     lastTick |-> [result |-> "none", cause |-> "none"],
     written |-> 0]

InitTail ==
    /\ file = [exists |-> TRUE, content |-> <<>>, gen |-> 0]
    /\ file_state = [last_position |-> 0, last_modified |-> NoTime]
    /\ tail = [pc |-> "tick", consecutive_errors |-> 0, start_position |-> 0]
    /\ tailHist = EmptyTailHist
    /\ flush = NoFlush
    /\ lock = NoLock
    /\ parse = NoParse
    /\ io = NoIo
    /\ mode = "plain"
    /\ config = [max_size |-> TailBufferCap, batch_size |-> 1]
    /\ buffers = [n \in BufferNames |->
                    IF n = "plain" THEN TelemetryBuffer_new(TailBufferCap, 1)
                    ELSE TelemetryBuffer_new(0, 0)]
    /\ nextId = 1
    /\ hist = [n \in BufferNames |-> [k \in QueueNames |-> EmptyHist]]
    /\ lastOp = NoOp
    /\ transport = [max_retries |-> 0, retry_backoff_ms |-> 0]
    /\ send = NoSend

\* the application appends to the log file
AppendToFile ==
    /\ file.exists
    /\ \E c \in Chunks :
         /\ tailHist.written + Len(c) <= MaxFile
         /\ file' = [file EXCEPT !.content = @ \o c]
         /\ tailHist' = [tailHist EXCEPT !.written = @ + Len(c)]
    /\ UNCHANGED <<file_state, tail, bufVars, txVars, restVars>>

\* the file is truncated in place or replaced by a new, empty file (rotation)
Rotate ==
    /\ file.exists
    /\ file.gen < MaxGen
    /\ file' = [exists |-> TRUE, content |-> <<>>, gen |-> file.gen + 1]
    /\ tailHist' = NewGeneration(tailHist, tail.pc # "reading")
    /\ UNCHANGED <<file_state, tail, bufVars, txVars, restVars>>

\* the file is removed (the first half of a rotation by rename)
Remove ==
    /\ file.exists
    /\ file.gen < MaxGen
    /\ file' = [file EXCEPT !.exists = FALSE, !.content = <<>>]
    /\ UNCHANGED <<file_state, tail, tailHist, bufVars, txVars, restVars>>

\* a new file appears at the path
Create ==
    /\ ~file.exists
    /\ file.gen < MaxGen
    /\ file' = [exists |-> TRUE, content |-> <<>>, gen |-> file.gen + 1]
    /\ tailHist' = NewGeneration(tailHist, tail.pc # "reading")
    /\ UNCHANGED <<file_state, tail, bufVars, txVars, restVars>>

\* a 500 ms tick of monitor_file: check_and_read_file up to the decision to read
Tick ==
    /\ tail.pc = "tick"
    /\ IF ~file.exists
       THEN \* Ok(0): the file may appear later
            /\ tail' = after_tick(tail, TRUE)
            /\ tailHist' = [tailHist EXCEPT !.lastTick = [result |-> "Ok", cause |-> "none"]]
            /\ UNCHANGED file_state
       ELSE LET d == check_decision(file_state.last_position, file_state.last_modified,
                                    Len(file.content), modified(file))
            IN  /\ file_state' =
                     IF d.reset
                     THEN [last_position |-> 0, last_modified |-> modified(file)]
                     ELSE file_state
                /\ IF d.should_read
                   THEN /\ tail' = [tail EXCEPT !.pc = "reading",
                                                !.start_position = d.start_position]
                        /\ UNCHANGED tailHist
                   ELSE /\ tail' = after_tick(tail, TRUE)
                        /\ tailHist' = [tailHist EXCEPT
                                          !.lastTick = [result |-> "Ok", cause |-> "none"]]
    /\ UNCHANGED <<file, bufVars, txVars, restVars>>

\* read_file_from_position and monitor_file's handling of its result
ReadFile ==
    /\ tail.pc = "reading"
    /\ IF ~file.exists
       THEN \* File::open fails: the file went away after check_and_read_file saw it
            /\ tail' = after_tick(tail, FALSE)
            /\ tailHist' = [tailHist EXCEPT !.lastTick = [result |-> "Err", cause |-> "open"]]
            /\ UNCHANGED <<file_state, buffers>>
       ELSE \E r \in {read_loop(file.content, tail.start_position, 0, <<>>)} :
              /\ buffers' = [buffers EXCEPT
                               !["plain"] = enqueue_lines(@, file.gen, r.subs)]
              /\ tailHist' =
                   [tailHist EXCEPT
                      !.enq = CountSubs(@, r.subs),
                      !.first = IF @.start = -1
                                THEN [@ EXCEPT !.start = tail.start_position,
                                               !.size = Len(file.content),
                                               !.offset = file_state.last_position]
                                ELSE @,
                      !.lastTick = IF r.err # "none"
                                   THEN [result |-> "Err", cause |-> r.err]
                                   ELSE [result |-> "Ok", cause |-> "none"]]
              /\ IF r.err # "none"
                 THEN \* process_log_line failed: the offset is not stored
                      /\ file_state' = file_state
                      /\ tail' = after_tick(tail, FALSE)
                 ELSE /\ file_state' = [last_position |-> r.pos,
                                        last_modified |-> modified(file)]
                      /\ tail' = after_tick(tail, TRUE)
    /\ UNCHANGED <<file, mode, config, nextId, hist, lastOp, txVars, restVars>>

\* the 30 second pause after ten consecutive errors ends
PauseElapsed ==
    /\ tail.pc = "paused"
    /\ tail' = [tail EXCEPT !.pc = "tick", !.consecutive_errors = 0]
    /\ UNCHANGED <<file, file_state, tailHist, bufVars, txVars, restVars>>

NextTail ==
    \/ AppendToFile
    \/ Rotate
    \/ Remove
    \/ Create
    \/ Tick
    \/ ReadFile
    \/ PauseElapsed

\* the tail task alone, on a file that is only appended to
NextTailAppendOnly ==
    \/ AppendToFile
    \/ Tick
    \/ ReadFile
    \/ PauseElapsed

(***************************************************************************)
(* Flush loop and shutdown (collector.rs:117-123, 274-308, 333-349).  The  *)
(* periodic flush task and the main task's shutdown both run                *)
(* flush_buffers on the shared buffer while tail tasks keep adding records; *)
(* a whole HttpTransport::send_batch call is one step here.                 *)
(***************************************************************************)
FlushTasks == {"periodic", "shutdown"}

MaxFlushRecords == 3    \* records the tail tasks add in one behaviour

\* does some retry of an always-failing send overflow the backoff computation
\* (the product grows with the retry number, so the last retry decides)
will_overflow(tr) ==
    tr.max_retries >= 1 /\ backoff_overflows(tr.retry_backoff_ms, tr.max_retries)

\* how a send_batch call can end: Ok, Err after the final retry, or a panic in
\* the backoff computation when the build checks arithmetic overflow
send_batch_results(tr, overflow_checks) ==
    IF will_overflow(tr) /\ overflow_checks THEN {"Ok", "panicked"} ELSE {"Ok", "Err"}

\* the process is alive: start has not returned from shutdown, nor panicked
Running == flush.tasks["shutdown"].pc \notin {"done", "panicked"}

\* where a task goes when its flush_buffers call returns
after_flush(t) == IF t = "shutdown" THEN "done" ELSE "idle"

IdleFlushTask == [pc |-> "idle", batches |-> <<>>, round |-> {}]

\* history: a batch was handed to the transport, with the call's result
hand_over(f, batch, result) ==
    [f EXCEPT !.sent = [id \in DOMAIN @ |->
                          IF id \in Range(batch) THEN SatInc(@[id]) ELSE @[id]],
              !.failed = IF result = "Err" THEN @ \cup Range(batch) ELSE @]

InitFlush ==
    /\ mode = "plain"
    /\ config \in [max_size : 1..MaxBatch, batch_size : 1..MaxBatch]
    /\ buffers = [n \in BufferNames |->
                    IF n = "plain"
                    THEN TelemetryBuffer_new(config.max_size, config.batch_size)
                    ELSE TelemetryBuffer_new(0, 0)]
    /\ nextId = 1
    /\ hist = [n \in BufferNames |-> [k \in QueueNames |-> EmptyHist]]
    /\ lastOp = NoOp
    /\ transport \in [max_retries : {0, U64Bits + 1}, retry_backoff_ms : {0}]
    /\ send = NoSend
    /\ file = [exists |-> FALSE, content |-> <<>>, gen |-> 0]
    /\ file_state = [last_position |-> 0, last_modified |-> 0]
    /\ tail = [pc |-> "tick", consecutive_errors |-> 0, start_position |-> 0]
    /\ tailHist = [lastTick |-> [result |-> "none", cause |-> "none"], written |-> 0]
    /\ flush \in [tasks : {[t \in FlushTasks |-> IdleFlushTask]},
                  overflow_checks : BOOLEAN,
                  sent : {[id \in 1..MaxFlushRecords |-> 0]},
                  failed : {{}},
                  final : {[started |-> FALSE, present |-> {}]}]
    /\ lock = NoLock
    /\ parse = NoParse
    /\ io = NoIo

\* the batches flush_buffers' for loop still has to send after one send_batch
\* call returned result: an Err is logged and the loop goes on
remaining_after_AbortOnErr(batches, result) ==
    IF result = "Err" THEN <<>> ELSE Tail(batches)

remaining_after(batches, result) == Tail(batches)

\* a tail task's process_log_line adds a record while the process runs
Produce ==
    /\ Running
    /\ nextId <= MaxFlushRecords
    /\ buffers' = [buffers EXCEPT !["plain"] = add_log(@, nextId)]
    /\ hist' = [hist EXCEPT !["plain"].logs =
                   HistAdd(@, buffers["plain"].logs,
                           add_log(buffers["plain"], nextId).logs, nextId)]
    /\ nextId' = nextId + 1
    /\ UNCHANGED <<mode, config, lastOp, txVars, tailVars, flush, lock, parse, io>>

\* flush_buffers up to its has_data test, called by task t
start_flush(t) ==
    /\ Running
    /\ flush.tasks[t].pc = "idle"
    /\ IF has_data(buffers["plain"])
       THEN flush' = [flush EXCEPT !.tasks[t] =
                        [pc |-> "draining", batches |-> <<>>, round |-> {}]]
       ELSE flush' = [flush EXCEPT !.tasks[t].pc = after_flush(t)]
    /\ UNCHANGED <<bufVars, txVars, tailVars, lock, parse, io>>

\* a tick of periodic_flush's interval
FlushTick ==
    /\ has_data(buffers["plain"])
    /\ start_flush("periodic")

\* the interrupt arrives: start calls shutdown, which calls flush_buffers once
Interrupt ==
    /\ flush.tasks["shutdown"].pc = "idle"
    /\ \E f \in {[flush EXCEPT !.final = [started |-> TRUE,
                                          present |-> Range(buffers["plain"].logs)]]} :
         IF has_data(buffers["plain"])
         THEN flush' = [f EXCEPT !.tasks["shutdown"] =
                          [pc |-> "draining", batches |-> <<>>, round |-> {}]]
         ELSE flush' = [f EXCEPT !.tasks["shutdown"].pc = "done"]
    /\ UNCHANGED <<bufVars, txVars, tailVars, lock, parse, io>>

\* one drain_batch call of flush_all's loop
FlushDrain(t) ==
    /\ Running
    /\ flush.tasks[t].pc = "draining"
    /\ \E r \in {drain_batch(buffers["plain"])} :
         IF r.batch.some
         THEN /\ buffers' = [buffers EXCEPT !["plain"] = r.buf]
              /\ hist' = [hist EXCEPT !["plain"].logs = HistDrain(@, r.batch.logs)]
              /\ flush' = [flush EXCEPT
                             !.tasks[t].batches = Append(@, r.batch.logs),
                             !.tasks[t].round = @ \cup Range(r.batch.logs)]
         ELSE /\ buffers' = buffers
              /\ hist' = hist
              /\ flush' = [flush EXCEPT !.tasks[t].pc =
                             IF flush.tasks[t].batches = <<>>
                             THEN after_flush(t) ELSE "sending"]
    /\ UNCHANGED <<mode, config, nextId, lastOp, txVars, tailVars, lock, parse, io>>

\* one iteration of flush_buffers' send loop: the batch is handed to the
\* transport; an Err is logged and the batch is dropped
FlushSend(t) ==
    /\ Running
    /\ flush.tasks[t].pc = "sending"
    /\ \E result \in send_batch_results(transport, flush.overflow_checks) :
         LET batch == Head(flush.tasks[t].batches)
             rest == remaining_after(flush.tasks[t].batches, result)
             h == hand_over(flush, batch, result)
         IN  IF result = "panicked"
             THEN flush' = [h EXCEPT !.tasks[t].pc = "panicked"]
             ELSE flush' = [h EXCEPT
                              !.tasks[t].batches = rest,
                              !.tasks[t].pc = IF rest = <<>> THEN after_flush(t)
                                              ELSE "sending"]
    /\ UNCHANGED <<bufVars, txVars, tailVars, lock, parse, io>>

NextFlush ==
    \/ Produce
    \/ FlushTick
    \/ Interrupt
    \/ \E t \in FlushTasks : FlushDrain(t)
    \/ \E t \in FlushTasks : FlushSend(t)

(***************************************************************************)
(* The buffer's two queue locks (buffer.rs:13-14, 31-152).  Each queue     *)
(* sits in its own tokio RwLock; an operation suspends at every            *)
(* .read().await / .write().await and runs without suspending between an   *)
(* acquisition and the next.  Several tasks run operations on the          *)
(* collector's one buffer.                                                  *)
(***************************************************************************)
LockTasks == {"t1", "t2"}

MaxLockOps == 3     \* operations started in one behaviour

LockOps == {"add_log", "add_span", "drain_batch", "sizes", "has_data",
            "should_flush", "flush_all", "clear"}

\* the locks an operation takes, in the order of its .await points
lock_order_DrainLogsOnly(op) ==
    IF op = "add_log" THEN <<[q |-> "logs", kind |-> "write"]>>
    ELSE IF op = "add_span" THEN <<[q |-> "spans", kind |-> "write"]>>
    ELSE IF op \in {"drain_batch", "flush_all"}
    THEN <<[q |-> "logs", kind |-> "write"]>>
    ELSE IF op = "clear"
    THEN <<[q |-> "logs", kind |-> "write"], [q |-> "spans", kind |-> "write"]>>
    ELSE <<[q |-> "logs", kind |-> "read"], [q |-> "spans", kind |-> "read"]>>

lock_order_ClearSpansFirst(op) ==
    IF op = "add_log" THEN <<[q |-> "logs", kind |-> "write"]>>
    ELSE IF op = "add_span" THEN <<[q |-> "spans", kind |-> "write"]>>
    ELSE IF op \in {"drain_batch", "flush_all"}
    THEN <<[q |-> "logs", kind |-> "write"], [q |-> "spans", kind |-> "write"]>>
    ELSE IF op = "clear"
    THEN <<[q |-> "spans", kind |-> "write"], [q |-> "logs", kind |-> "write"]>>
    ELSE <<[q |-> "logs", kind |-> "read"], [q |-> "spans", kind |-> "read"]>>

lock_order(op) ==
    IF op = "add_log" THEN <<[q |-> "logs", kind |-> "write"]>>
    ELSE IF op = "add_span" THEN <<[q |-> "spans", kind |-> "write"]>>
    ELSE IF op \in {"drain_batch", "flush_all", "clear"}
    THEN <<[q |-> "logs", kind |-> "write"], [q |-> "spans", kind |-> "write"]>>
    ELSE <<[q |-> "logs", kind |-> "read"], [q |-> "spans", kind |-> "read"]>>

\* RwLock: a writer excludes everyone, readers exclude writers
can_grant(h, kind) ==
    IF kind = "write" THEN h.writer = "none" /\ h.readers = {}
    ELSE h.writer = "none"

grant(h, kind, t) ==
    IF kind = "write" THEN [h EXCEPT !.writer = t] ELSE [h EXCEPT !.readers = @ \cup {t}]

\* the guards of task t are dropped
release(holders, t) ==
    [q \in QueueNames |->
       [writer |-> IF holders[q].writer = t THEN "none" ELSE holders[q].writer,
        readers |-> holders[q].readers \ {t}]]

IdleOp ==
    [op |-> "none", held |-> 0, phase |-> "idle", log_count |-> 0, span_count |-> 0,
     result |-> "none", records |-> 0, empty_at_return |-> FALSE]

InitLock ==
    /\ mode = "plain"
    /\ config \in [max_size : {2}, batch_size : 0..1]
    /\ buffers = [n \in BufferNames |->
                    IF n = "plain"
                    THEN TelemetryBuffer_new(config.max_size, config.batch_size)
                    ELSE TelemetryBuffer_new(0, 0)]
    /\ nextId = 1
    /\ hist = [n \in BufferNames |-> [k \in QueueNames |-> EmptyHist]]
    /\ lastOp = NoOp
    /\ transport = [max_retries |-> 0, retry_backoff_ms |-> 0]
    /\ send = NoSend
    /\ file = [exists |-> FALSE, content |-> <<>>, gen |-> 0]
    /\ file_state = [last_position |-> 0, last_modified |-> 0]
    /\ tail = [pc |-> "tick", consecutive_errors |-> 0, start_position |-> 0]
    /\ tailHist = [lastTick |-> [result |-> "none", cause |-> "none"], written |-> 0]
    /\ flush = NoFlush
    /\ lock = [holders |-> [q \in QueueNames |-> [writer |-> "none", readers |-> {}]],
               ops |-> [t \in LockTasks |-> IdleOp],
               started |-> 0]
    /\ parse = NoParse
    /\ io = NoIo

\* task t calls a buffer operation
StartOp(t) ==
    /\ lock.ops[t].op = "none"
    /\ lock.started < MaxLockOps
    /\ \E op \in LockOps :
         lock' = [lock EXCEPT !.ops[t] = [IdleOp EXCEPT !.op = op, !.phase = "locking"],
                              !.started = @ + 1]
    /\ UNCHANGED <<bufVars, txVars, tailVars, flush, parse, io>>

\* the next .read().await / .write().await of t's operation is granted
Acquire(t) ==
    /\ lock.ops[t].phase = "locking"
    /\ lock.ops[t].held < Len(lock_order(lock.ops[t].op))
    /\ \E want \in {lock_order(lock.ops[t].op)[lock.ops[t].held + 1]} :
         /\ can_grant(lock.holders[want.q], want.kind)
         /\ lock' = [lock EXCEPT !.holders[want.q] = grant(@, want.kind, t),
                                 !.ops[t].held = @ + 1]
    /\ UNCHANGED <<bufVars, txVars, tailVars, flush, parse, io>>

\* drain_batch computes log_count and span_count
Count(t) ==
    /\ lock.ops[t].op \in {"drain_batch", "flush_all"}
    /\ lock.ops[t].phase = "locking"
    /\ lock.ops[t].held = Len(lock_order(lock.ops[t].op))
    /\ lock' = [lock EXCEPT
                  !.ops[t].phase = "counted",
                  !.ops[t].log_count =
                      Min(buffers["plain"].batch_size, Len(buffers["plain"].logs)),
                  !.ops[t].span_count =
                      Min(buffers["plain"].batch_size, Len(buffers["plain"].spans))]
    /\ UNCHANGED <<bufVars, txVars, tailVars, flush, parse, io>>

\* drain_batch decides, drains and drops its guards; flush_all loops on Some
FinishDrain(t) ==
    /\ lock.ops[t].phase = "counted"
    /\ \E o \in {lock.ops[t]} :
         IF o.log_count = 0 /\ o.span_count = 0
         THEN /\ buffers' = buffers
              /\ lock' = [lock EXCEPT
                            !.holders = release(@, t),
                            !.ops[t] = [IdleOp EXCEPT
                                          !.result = "None",
                                          !.empty_at_return = ~has_data(buffers["plain"])]]
         ELSE /\ buffers' = [buffers EXCEPT
                               !["plain"].logs = drain_rest(@, o.log_count),
                               !["plain"].spans = drain_rest(@, o.span_count)]
              /\ lock' = [lock EXCEPT
                            !.holders = release(@, t),
                            !.ops[t] =
                               [IdleOp EXCEPT
                                  !.op = IF o.op = "flush_all" THEN o.op ELSE "none",
                                  !.phase = IF o.op = "flush_all" THEN "locking" ELSE "idle",
                                  !.result = "Some",
                                  !.records =
                                     Len(drain_front(buffers["plain"].logs, o.log_count))
                                     + Len(drain_front(buffers["plain"].spans,
                                                       o.span_count))]]
    /\ UNCHANGED <<mode, config, nextId, hist, lastOp, txVars, tailVars, flush, parse, io>>

\* every other operation: its body once its locks are held, then the guards drop
Finish(t) ==
    /\ lock.ops[t].op \notin {"none", "drain_batch", "flush_all"}
    /\ lock.ops[t].held = Len(lock_order(lock.ops[t].op))
    /\ \E op \in {lock.ops[t].op} :
         /\ buffers' = [buffers EXCEPT !["plain"] =
                          IF op = "add_log" THEN add_log(@, nextId)
                          ELSE IF op = "add_span" THEN add_span(@, nextId)
                          ELSE IF op = "clear" THEN clear(@)
                          ELSE @]
         /\ nextId' = IF op \in {"add_log", "add_span"} THEN nextId + 1 ELSE nextId
         /\ lock' = [lock EXCEPT
                       !.holders = release(@, t),
                       !.ops[t] = [IdleOp EXCEPT !.result =
                          IF op = "has_data" /\ has_data(buffers["plain"]) THEN "true"
                          ELSE IF op = "should_flush" /\ should_flush(buffers["plain"])
                          THEN "true"
                          ELSE IF op \in {"has_data", "should_flush"} THEN "false"
                          ELSE "done"]]
    /\ UNCHANGED <<mode, config, hist, lastOp, txVars, tailVars, flush, parse, io>>

TaskStep(t) == Acquire(t) \/ Count(t) \/ FinishDrain(t) \/ Finish(t)

NextLock ==
    \/ \E t \in LockTasks : StartOp(t)
    \/ \E t \in LockTasks : Acquire(t)
    \/ \E t \in LockTasks : Count(t)
    \/ \E t \in LockTasks : FinishDrain(t)
    \/ \E t \in LockTasks : Finish(t)

(***************************************************************************)
(* Await points of the collector's tasks (collector.rs:126-309,            *)
(* transport.rs:237-322, buffer.rs:31-141).  A task is parked at one       *)
(* .await at a time: on a lock, on a file operation, on the HTTP request   *)
(* or on a timer.  What the data is does not matter here, so every branch  *)
(* the synchronous code between two awaits can take is a choice.           *)
(***************************************************************************)
TailTasks == {"tail1", "tail2"}     \* one monitor_file task per log path

IoTasks == TailTasks \cup {"flush"}

IoLocks == {"file_states", "logs", "spans", "attempts", "successes", "failures",
            "total_duration", "min_duration", "max_duration"}

OnLock(l, kind) == [kind |-> "lock", lock |-> l, mode |-> kind]

OnFile == [kind |-> "file", lock |-> "none", mode |-> "none"]

OnHttp == [kind |-> "http", lock |-> "none", mode |-> "none"]

OnTimer == [kind |-> "timer", lock |-> "none", mode |-> "none"]

\* what the .await at each program point waits for
awaited(pc) ==
    CASE pc = "tick"           -> OnTimer                           \* collector.rs:137
      [] pc = "pause"          -> OnTimer                           \* collector.rs:157
      [] pc = "path_read"      -> OnLock("file_states", "read")     \* collector.rs:168
      [] pc = "check_metadata" -> OnFile                            \* collector.rs:176
      [] pc = "decide_write"   -> OnLock("file_states", "write")    \* collector.rs:181
      [] pc = "open"           -> OnFile                            \* collector.rs:213
      [] pc = "seek"           -> OnFile                            \* collector.rs:214
      [] pc = "read_line"      -> OnFile                            \* collector.rs:222
      [] pc = "add_log"        -> OnLock("logs", "write")           \* buffer.rs:32
      [] pc = "add_span"       -> OnLock("spans", "write")          \* buffer.rs:47
      [] pc = "store_write"    -> OnLock("file_states", "write")    \* collector.rs:246
      [] pc = "store_metadata" -> OnFile                            \* collector.rs:249
      [] pc = "interval"       -> OnTimer                           \* collector.rs:276
      [] pc = "sizes_logs"     -> OnLock("logs", "read")            \* buffer.rs:101
      [] pc = "sizes_spans"    -> OnLock("spans", "read")           \* buffer.rs:102
      [] pc = "drain_logs"     -> OnLock("logs", "write")           \* buffer.rs:68
      [] pc = "drain_spans"    -> OnLock("spans", "write")          \* buffer.rs:69
      [] pc = "attempts"       -> OnLock("attempts", "write")       \* transport.rs:291
      [] pc = "http"           -> OnHttp                            \* transport.rs:107
      [] pc = "backoff"        -> OnTimer                           \* transport.rs:82
      [] pc = "successes"      -> OnLock("successes", "write")      \* transport.rs:296
      [] pc = "failures"       -> OnLock("failures", "write")       \* transport.rs:304
      [] pc = "total_duration" -> OnLock("total_duration", "write") \* transport.rs:312
      [] pc = "min_duration"   -> OnLock("min_duration", "write")   \* transport.rs:316
      [] pc = "max_duration"   -> OnLock("max_duration", "write")   \* transport.rs:320

Parked(pc, held) == [pc |-> pc, held |-> held]

Held(l, kind) == [lock |-> l, mode |-> kind]

\* where the task parks next once the await at pc returns, and the guards
\* that are alive at that point
next_points(pc) ==
    CASE pc = "tick"           -> {Parked("path_read", {})}
      [] pc = "pause"          -> {Parked("tick", {})}
         \* the guard goes at the end of the block; the path may not exist
      [] pc = "path_read"      -> {Parked("check_metadata", {}), Parked("tick", {})}
      [] pc = "check_metadata" -> {Parked("decide_write", {}), Parked("tick", {}),
                                   Parked("pause", {})}
      [] pc = "decide_write"   -> {Parked("open", {}), Parked("tick", {})}
      [] pc = "open"           -> {Parked("seek", {}), Parked("tick", {}),
                                   Parked("pause", {})}
      [] pc = "seek"           -> {Parked("read_line", {}), Parked("tick", {}),
                                   Parked("pause", {})}
         \* end of file, a blank line, a log record, a span only, or an error
      [] pc = "read_line"      -> {Parked("store_write", {}), Parked("read_line", {}),
                                   Parked("add_log", {}), Parked("add_span", {}),
                                   Parked("tick", {}), Parked("pause", {})}
      [] pc = "add_log"        -> {Parked("add_span", {}), Parked("read_line", {}),
                                   Parked("tick", {}), Parked("pause", {})}
      [] pc = "add_span"       -> {Parked("read_line", {})}
         \* the write guard lives to the end of the block at collector.rs:250
      [] pc = "store_write"    -> {Parked("store_metadata",
                                          {Held("file_states", "write")})}
      [] pc = "store_metadata" -> {Parked("tick", {}), Parked("pause", {})}
      [] pc = "interval"       -> {Parked("sizes_logs", {})}
      [] pc = "sizes_logs"     -> {Parked("sizes_spans", {Held("logs", "read")})}
      [] pc = "sizes_spans"    -> {Parked("interval", {}), Parked("drain_logs", {})}
      [] pc = "drain_logs"     -> {Parked("drain_spans", {Held("logs", "write")})}
         \* Some: flush_all drains again; None: the batches are sent, if any
      [] pc = "drain_spans"    -> {Parked("drain_logs", {}), Parked("attempts", {}),
                                   Parked("interval", {})}
      [] pc = "attempts"       -> {Parked("http", {})}
      [] pc = "http"           -> {Parked("successes", {}), Parked("failures", {}),
                                   Parked("backoff", {})}
      [] pc = "backoff"        -> {Parked("http", {})}
      [] pc = "successes"      -> {Parked("total_duration", {})}
      [] pc = "failures"       -> {Parked("total_duration", {})}
      [] pc = "total_duration" -> {Parked("min_duration", {})}
      [] pc = "min_duration"   -> {Parked("max_duration", {})}
         \* the next batch of the for loop, or flush_buffers returns
      [] pc = "max_duration"   -> {Parked("attempts", {}), Parked("interval", {})}

\* the lock table once task t holds exactly the guards in held
with_guards(holders, t, held) ==
    [l \in IoLocks |->
       [writer |-> IF Held(l, "write") \in held THEN t
                   ELSE IF holders[l].writer = t THEN "none"
                   ELSE holders[l].writer,
        readers |-> IF Held(l, "read") \in held THEN holders[l].readers \cup {t}
                    ELSE holders[l].readers \ {t}]]

InitIo ==
    /\ mode = "plain"
    /\ config = [max_size |-> 1, batch_size |-> 1]
    /\ buffers = [n \in BufferNames |->
                    IF n = "plain" THEN TelemetryBuffer_new(1, 1)
                    ELSE TelemetryBuffer_new(0, 0)]
    /\ nextId = 1
    /\ hist = [n \in BufferNames |-> [k \in QueueNames |-> EmptyHist]]
    /\ lastOp = NoOp
    /\ transport = [max_retries |-> 0, retry_backoff_ms |-> 0]
    /\ send = NoSend
    /\ file = [exists |-> FALSE, content |-> <<>>, gen |-> 0]
    /\ file_state = [last_position |-> 0, last_modified |-> 0]
    /\ tail = [pc |-> "tick", consecutive_errors |-> 0, start_position |-> 0]
    /\ tailHist = [lastTick |-> [result |-> "none", cause |-> "none"], written |-> 0]
    /\ flush = NoFlush
    /\ lock = NoLock
    /\ parse = NoParse
    /\ io = [tasks |-> [t \in IoTasks |->
                          IF t = "flush" THEN Parked("interval", {})
                          ELSE Parked("tick", {})],
             holders |-> [l \in IoLocks |-> [writer |-> "none", readers |-> {}]]]

\* the await of task t returns and t runs to its next await
resume(t) ==
    \E n \in next_points(io.tasks[t].pc) :
      io' = [io EXCEPT !.tasks[t] = n,
                       !.holders = with_guards(@, t, n.held)]

\* the lock task t waits for is granted
Granted(t) ==
    /\ awaited(io.tasks[t].pc).kind = "lock"
    /\ can_grant(io.holders[awaited(io.tasks[t].pc).lock], awaited(io.tasks[t].pc).mode)
    /\ resume(t)
    /\ UNCHANGED <<bufVars, txVars, tailVars, flush, lock, parse>>

\* the file operation or HTTP request task t waits for completes
IoCompleted(t) ==
    /\ awaited(io.tasks[t].pc).kind \in {"file", "http"}
    /\ resume(t)
    /\ UNCHANGED <<bufVars, txVars, tailVars, flush, lock, parse>>

\* the tick, sleep or interval task t waits for fires
TimerFired(t) ==
    /\ awaited(io.tasks[t].pc).kind = "timer"
    /\ resume(t)
    /\ UNCHANGED <<bufVars, txVars, tailVars, flush, lock, parse>>

NextIo ==
    \/ \E t \in IoTasks : Granted(t)
    \/ \E t \in IoTasks : IoCompleted(t)
    \/ \E t \in IoTasks : TimerFired(t)

(***************************************************************************)
(* What the parsers put into a log record (log_parser.rs:28-97, 259-325,   *)
(* 349-361; telemetry.rs:44-56).  A structured line is the object          *)
(* serde_json decodes from it: a value per key.  A textual line is given   *)
(* by the shape the default patterns tell apart and by what their groups   *)
(* capture.                                                                 *)
(***************************************************************************)
Absent == [type |-> "absent", str |-> ""]     \* the key is not in the object

Null == [type |-> "null", str |-> ""]

Number == [type |-> "number", str |-> ""]

Str(s) == [type |-> "string", str |-> s]

NoneStr == [some |-> FALSE, s |-> ""]

SomeStr(s) == [some |-> TRUE, s |-> s]

\* Value's Index: a missing key reads as Null
json_index(json, key) == IF json[key].type = "absent" THEN Null ELSE json[key]

\* Value::as_str
as_str(v) == IF v.type = "string" THEN SomeStr(v.str) ELSE NoneStr

\* Option::or_else
or_else(a, b) == IF a.some THEN a ELSE b

\* Option::unwrap_or
unwrap_or(a, d) == IF a.some THEN a.s ELSE d

\* json[k1].as_str().or_else(json[k2].as_str()).or_else(json[k3].as_str())
first_str(json, k1, k2, k3) ==
    or_else(or_else(as_str(json_index(json, k1)), as_str(json_index(json, k2))),
            as_str(json_index(json, k3)))

\* a string as the sequence of its characters
chars_of(s) ==
    CASE s = "" -> <<>>
      [] s = "INFO" -> <<"I", "N", "F", "O">>
      [] s = "OK" -> <<"O", "K">>
      [] s = "error" -> <<"e", "r", "r", "o", "r">>
      [] s = "bogus" -> <<"b", "o", "g", "u", "s">>
      [] s = "FATAL" -> <<"F", "A", "T", "A", "L">>
      [] s = "warn" -> <<"w", "a", "r", "n">>
      [] s = "ERROR" -> <<"E", "R", "R", "O", "R">>
      [] s = "canceled" -> <<"c", "a", "n", "c", "e", "l", "e", "d">>
      [] s = "unknown" -> <<"u", "n", "k", "n", "o", "w", "n">>
      [] s = "trace" -> <<"t", "r", "a", "c", "e">>
      [] s = "verbose" -> <<"v", "e", "r", "b", "o", "s", "e">>
      [] s = "debug" -> <<"d", "e", "b", "u", "g">>
      [] s = "info" -> <<"i", "n", "f", "o">>
      [] s = "information" -> <<"i", "n", "f", "o", "r", "m", "a", "t", "i", "o", "n">>
      [] s = "warning" -> <<"w", "a", "r", "n", "i", "n", "g">>
      [] s = "err" -> <<"e", "r", "r">>
      [] s = "fatal" -> <<"f", "a", "t", "a", "l">>
      [] s = "critical" -> <<"c", "r", "i", "t", "i", "c", "a", "l">>
      [] s = "errors" -> <<"e", "r", "r", "o", "r", "s">>
      [] s = "inf" -> <<"i", "n", "f">>
      [] s = "warns" -> <<"w", "a", "r", "n", "s">>
      [] s = " error" -> <<" ", "e", "r", "r", "o", "r">>
      [] s = "TRACE" -> <<"T", "R", "A", "C", "E">>
      [] s = "VERBOSE" -> <<"V", "E", "R", "B", "O", "S", "E">>
      [] s = "DEBUG" -> <<"D", "E", "B", "U", "G">>
      [] s = "INFORMATION" -> <<"I", "N", "F", "O", "R", "M", "A", "T", "I", "O", "N">>
      [] s = "WARN" -> <<"W", "A", "R", "N">>
      [] s = "WARNING" -> <<"W", "A", "R", "N", "I", "N", "G">>
      [] s = "ERR" -> <<"E", "R", "R">>
      [] s = "CRITICAL" -> <<"C", "R", "I", "T", "I", "C", "A", "L">>
      [] s = "SUCCESS" -> <<"S", "U", "C", "C", "E", "S", "S">>
      [] s = "COMPLETED" -> <<"C", "O", "M", "P", "L", "E", "T", "E", "D">>
      [] s = "FAILED" -> <<"F", "A", "I", "L", "E", "D">>
      [] s = "FAILURE" -> <<"F", "A", "I", "L", "U", "R", "E">>
      [] s = "TIMEOUT" -> <<"T", "I", "M", "E", "O", "U", "T">>
      [] s = "TIMEDOUT" -> <<"T", "I", "M", "E", "D", "O", "U", "T">>
      [] s = "CANCELLED" -> <<"C", "A", "N", "C", "E", "L", "L", "E", "D">>
      [] s = "CANCELED" -> <<"C", "A", "N", "C", "E", "L", "E", "D">>
      [] s = "ABORTED" -> <<"A", "B", "O", "R", "T", "E", "D">>
      [] s = "security" -> <<"s", "e", "c", "u", "r", "i", "t", "y">>
      [] s = "alert" -> <<"a", "l", "e", "r", "t">>
      [] s = "hello" -> <<"h", "e", "l", "l", "o">>
      [] s = "hi" -> <<"h", "i">>
      [] s = "Normal message" -> <<"N", "o", "r", "m", "a", "l", " ", "m", "e", "s", "s", "a", "g", "e">>
      [] s = "Security ALERT raised" -> <<"S", "e", "c", "u", "r", "i", "t", "y", " ", "A", "L", "E", "R", "T", " ", "r", "a", "i", "s", "e", "d">>
      [] s = "disk is critically low" -> <<"d", "i", "s", "k", " ", "i", "s", " ", "c", "r", "i", "t", "i", "c", "a", "l", "l", "y", " ", "l", "o", "w">>
      [] s = "  " -> <<" ", " ">>
      [] s = "Error message" -> <<"E", "r", "r", "o", "r", " ", "m", "e", "s", "s", "a", "g", "e">>

LowerLetters ==
    <<"a", "b", "c", "d", "e", "f", "g", "h", "i", "j", "k", "l", "m",
      "n", "o", "p", "q", "r", "s", "t", "u", "v", "w", "x", "y", "z">>

UpperLetters ==
    <<"A", "B", "C", "D", "E", "F", "G", "H", "I", "J", "K", "L", "M",
      "N", "O", "P", "Q", "R", "S", "T", "U", "V", "W", "X", "Y", "Z">>

\* char::to_uppercase / char::to_lowercase on the characters of the model
to_upper_char_AsIs(c) == c

to_upper_char(c) ==
    IF \E i \in 1..Len(LowerLetters) : LowerLetters[i] = c
    THEN UpperLetters[CHOOSE i \in 1..Len(LowerLetters) : LowerLetters[i] = c]
    ELSE c

to_lower_char(c) ==
    IF \E i \in 1..Len(UpperLetters) : UpperLetters[i] = c
    THEN LowerLetters[CHOOSE i \in 1..Len(UpperLetters) : UpperLetters[i] = c]
    ELSE c

\* str::to_uppercase / str::to_lowercase
to_uppercase(s) == [i \in 1..Len(s) |-> to_upper_char(s[i])]

to_lowercase(s) == [i \in 1..Len(s) |-> to_lower_char(s[i])]

\* impl From<&str> for LogLevel, on the characters of the string
LogLevel_from(s) ==
    CASE to_uppercase(s) \in {chars_of("TRACE"), chars_of("VERBOSE")}    -> "Trace"
      [] to_uppercase(s) = chars_of("DEBUG")                             -> "Debug"
      [] to_uppercase(s) \in {chars_of("INFO"), chars_of("INFORMATION")} -> "Info"
      [] to_uppercase(s) \in {chars_of("WARN"), chars_of("WARNING")}     -> "Warn"
      [] to_uppercase(s) \in {chars_of("ERROR"), chars_of("ERR")}        -> "Error"
      [] to_uppercase(s) \in {chars_of("FATAL"), chars_of("CRITICAL")}   -> "Fatal"
      [] OTHER                                                           -> "Info"

\* impl From<&str> for SpanStatus
SpanStatus_from(s) ==
    CASE to_uppercase(s) \in {chars_of("OK"), chars_of("SUCCESS"),
                              chars_of("COMPLETED")}                 -> "Ok"
      [] to_uppercase(s) \in {chars_of("ERROR"), chars_of("FAILED"),
                              chars_of("FAILURE")}                   -> "Error"
      [] to_uppercase(s) \in {chars_of("TIMEOUT"), chars_of("TIMEDOUT")} -> "Timeout"
      [] to_uppercase(s) \in {chars_of("CANCELLED"), chars_of("CANCELED"),
                              chars_of("ABORTED")}                   -> "Cancelled"
      [] OTHER                                                       -> "Ok"

\* the message of a record: a string taken from the line, or the whole line
Message(s) == [whole_line |-> FALSE, s |-> s]

WholeLine == [whole_line |-> TRUE, s |-> ""]

NoEntry == [level |-> "none", message |-> Message(""), trace_id |-> NoneStr,
            span_id |-> NoneStr]

OkSome(e) == [kind |-> "Some", entry |-> e]

OkNone == [kind |-> "None", entry |-> NoEntry]

ErrJson == [kind |-> "Err", entry |-> NoEntry]

NoJson ==
    [k \in {"level", "severity", "log_level", "message", "msg", "text", "trace_id",
            "traceId", "trace-id", "span_id", "spanId", "span-id"} |-> Absent]

NoText == [shape |-> "none", level |-> "", message |-> "", trace_id |-> "",
           span_id |-> ""]

\* the decoded objects of the structured lines
StructuredLines ==
    {[kind |-> "object", text |-> NoText,
      json |-> r @@ ("trace-id" :> t) @@ ("span-id" :> sp)] :
       r \in [level     : {Absent, Number, Str("error"), Str("bogus")},
              severity  : {Absent, Str("FATAL")},
              log_level : {Absent, Str("warn")},
              message   : {Absent, Str(""), Str("hello")},
              msg       : {Absent, Str("hi")},
              text      : {Absent, Str("")},
              trace_id  : {Absent, Number, Str("abc")},
              traceId   : {Absent, Str("xyz")},
              span_id   : {Absent, Str("def")},
              spanId    : {Absent, Str("s2")}],
       t \in {Absent, Str("t3")},
       sp \in {Absent, Str("s3")}}

\* the shapes of the five default patterns, in their order, and "plain"
TextShapes == {"bracket", "nginx", "spring", "simple", "python", "plain"}

TextualLines ==
    {[kind |-> "text", json |-> NoJson,
      text |-> [shape |-> sh, level |-> lv, message |-> "hello",
                trace_id |-> IF sh = "spring" THEN "abc" ELSE "",
                span_id |-> IF sh = "spring" THEN "def" ELSE ""]] :
       sh \in TextShapes, lv \in {"ERROR", "warn", "bogus"}}

\* lines of no characters and of spaces only; text.message of a plain line is
\* the line
BlankLines ==
    {[kind |-> "text", json |-> NoJson,
      text |-> [shape |-> "plain", level |-> "", message |-> m, trace_id |-> "",
                span_id |-> ""]] : m \in {"", "  "}}

Lines == StructuredLines \cup TextualLines \cup BlankLines

\* the first character a line of each shape has, and all of a plain line
line_head(line) ==
    CASE line.kind = "object"                      -> <<"{">>
      [] line.text.shape = "plain"                 -> chars_of(line.text.message)
      [] line.text.shape = "bracket"               -> <<"[">>
      [] line.text.shape \in {"nginx", "spring"}   -> <<"2">>
      [] OTHER                                     -> <<"E">>

\* line.trim().is_empty() of the read loop
skipped_AsIfNever(line) == FALSE

skipped(line) == trim(line_head(line)) = <<>>

\* RegexLogParser::default_patterns: the shape each regex matches and whether
\* it has trace_id_group / span_id_group
default_patterns ==
    <<[shape |-> "bracket", trace_groups |-> FALSE],
      [shape |-> "nginx",   trace_groups |-> FALSE],
      [shape |-> "spring",  trace_groups |-> TRUE],
      [shape |-> "simple",  trace_groups |-> FALSE],
      [shape |-> "python",  trace_groups |-> FALSE]>>

\* JsonLogParser::parse_log on the decoded object
JsonLogParser_log_entry(trace_correlation, line) ==
    IF line.kind # "object" THEN ErrJson
    ELSE LET level == unwrap_or(first_str(line.json, "level", "severity", "log_level"),
                                "INFO")
             message == unwrap_or(first_str(line.json, "message", "msg", "text"), "")
         IN  IF message = "" THEN OkNone
             ELSE OkSome([level |-> LogLevel_from(chars_of(level)),
                          message |-> Message(message),
                          trace_id |-> IF trace_correlation
                                       THEN first_str(line.json, "trace_id", "traceId",
                                                      "trace-id")
                                       ELSE NoneStr,
                          span_id |-> IF trace_correlation
                                      THEN first_str(line.json, "span_id", "spanId",
                                                     "span-id")
                                      ELSE NoneStr])

\* RegexLogParser::parse_log: the first pattern that matches, else the whole
\* line as an Info record.  No pattern matches a line that starts with "{".
RegexLogParser_log_entry(trace_correlation, line) ==
    LET matching == {i \in 1..Len(default_patterns) :
                       line.kind = "text" /\ default_patterns[i].shape = line.text.shape}
    IN  IF matching = {}
        THEN OkSome([level |-> "Info", message |-> WholeLine, trace_id |-> NoneStr,
                     span_id |-> NoneStr])
        ELSE LET pattern == default_patterns[CHOOSE i \in matching :
                                               \A j \in matching : i <= j]
             IN  OkSome([level |-> LogLevel_from(chars_of(line.text.level)),
                         message |-> Message(line.text.message),
                         trace_id |-> IF trace_correlation /\ pattern.trace_groups
                                      THEN SomeStr(line.text.trace_id) ELSE NoneStr,
                         span_id |-> IF trace_correlation /\ pattern.trace_groups
                                     THEN SomeStr(line.text.span_id) ELSE NoneStr])

\* CompositeLogParser::parse_log: Ok(None) and Err of the structured parser
\* both fall through to the textual parser
CompositeLogParser_log_entry(trace_correlation, line) ==
    IF /\ line.kind = "object"
       /\ JsonLogParser_log_entry(trace_correlation, line).kind = "Some"
    THEN JsonLogParser_log_entry(trace_correlation, line)
    ELSE RegexLogParser_log_entry(trace_correlation, line)

ParserVariants == {"json", "regex", "composite"}

\* LogParserFactory::create_parser
create_parser(format, trace_correlation, line) ==
    CASE format = "json"  -> JsonLogParser_log_entry(trace_correlation, line)
      [] format = "regex" -> RegexLogParser_log_entry(trace_correlation, line)
      [] OTHER            -> CompositeLogParser_log_entry(trace_correlation, line)

\* JsonLogParser::parse_span emits a span iff the object has span_id or spanId
has_span(line) ==
    /\ line.kind = "object"
    /\ (line.json["span_id"].type # "absent" \/ line.json["spanId"].type # "absent")

InitParse ==
    /\ mode = "plain"
    /\ config = [max_size |-> 1, batch_size |-> 1]
    /\ buffers = [n \in BufferNames |->
                    IF n = "plain" THEN TelemetryBuffer_new(1, 1)
                    ELSE TelemetryBuffer_new(0, 0)]
    /\ nextId = 1
    /\ hist = [n \in BufferNames |-> [k \in QueueNames |-> EmptyHist]]
    /\ lastOp = NoOp
    /\ transport = [max_retries |-> 0, retry_backoff_ms |-> 0]
    /\ send = NoSend
    /\ file = [exists |-> FALSE, content |-> <<>>, gen |-> 0]
    /\ file_state = [last_position |-> 0, last_modified |-> 0]
    /\ tail = [pc |-> "tick", consecutive_errors |-> 0, start_position |-> 0]
    /\ tailHist = [lastTick |-> [result |-> "none", cause |-> "none"], written |-> 0]
    /\ flush = NoFlush
    /\ lock = NoLock
    /\ io = NoIo
    /\ parse \in [pc : {"line"}, line : Lines, trace_correlation : BOOLEAN,
                  variant : {"none"}, result : {OkNone}]

\* parse_log of one parser variant on the line
ParseLog ==
    /\ parse.pc = "line"
    /\ \E format \in ParserVariants :
         parse' = [parse EXCEPT
                     !.pc = "parsed",
                     !.variant = format,
                     !.result = create_parser(format, parse.trace_correlation,
                                              parse.line)]
    /\ UNCHANGED <<bufVars, txVars, tailVars, flush, lock, io>>

\* a blank line of the read loop: nothing is parsed
SkipLine ==
    /\ parse.pc = "line"
    /\ skipped(parse.line)
    /\ parse' = [parse EXCEPT !.pc = "skipped"]
    /\ UNCHANGED <<bufVars, txVars, tailVars, flush, lock, io>>

\* SidecarCollector::process_log_line with the collector's composite parser,
\* on a line the read loop does not skip
ProcessLogLine ==
    /\ parse.pc = "line"
    /\ ~skipped(parse.line)
    /\ \E r \in {create_parser("composite", parse.trace_correlation, parse.line)} :
         /\ parse' = [parse EXCEPT !.pc = "processed", !.variant = "composite",
                                   !.result = r]
         /\ buffers' = [buffers EXCEPT !["plain"] =
                          IF r.kind = "Some" /\ has_span(parse.line)
                          THEN add_span(add_log(@, nextId), nextId + 1)
                          ELSE IF r.kind = "Some" THEN add_log(@, nextId)
                          ELSE IF has_span(parse.line) THEN add_span(@, nextId)
                          ELSE @]
         /\ nextId' = nextId + (IF r.kind = "Some" THEN 1 ELSE 0)
                             + (IF has_span(parse.line) THEN 1 ELSE 0)
    /\ UNCHANGED <<mode, config, hist, lastOp, txVars, tailVars, flush, lock, io>>

NextParse ==
    \/ ParseLog
    \/ SkipLine
    \/ ProcessLogLine

(***************************************************************************)
(* Span extraction (log_parser.rs:99-171, 327-330, 363-369).  The numbers  *)
(* of a line are u64 values, kept as four 16-bit digits, least             *)
(* significant first, so that the subtraction and the multiplication by    *)
(* 1000 have the width they have in the program.                           *)
(***************************************************************************)
Digit == 65536

U64(n) == <<n, 0, 0, 0>>      \* a value below 2^16

U64_MAX == <<Digit - 1, Digit - 1, Digit - 1, Digit - 1>>

u64_lt(a, b) ==
    \E i \in 1..4 : a[i] < b[i] /\ \A j \in (i + 1)..4 : a[j] = b[j]

\* a - b for a >= b
u64_sub(a, b) ==
    LET d1 == a[1] - b[1]
        c1 == IF d1 < 0 THEN 1 ELSE 0
        d2 == a[2] - b[2] - c1
        c2 == IF d2 < 0 THEN 1 ELSE 0
        d3 == a[3] - b[3] - c2
        c3 == IF d3 < 0 THEN 1 ELSE 0
        d4 == a[4] - b[4] - c3
    IN  <<d1 + c1 * Digit, d2 + c2 * Digit, d3 + c3 * Digit, d4>>

\* u64::saturating_sub
saturating_sub(a, b) == IF u64_lt(a, b) THEN U64(0) ELSE u64_sub(a, b)

\* a * k for k < 2^15: the low 64 bits and whether the product left the range
u64_mul(a, k) ==
    LET p1 == a[1] * k
        p2 == a[2] * k + p1 \div Digit
        p3 == a[3] * k + p2 \div Digit
        p4 == a[4] * k + p3 \div Digit
    IN  [low |-> <<p1 % Digit, p2 % Digit, p3 % Digit, p4 % Digit>>,
         overflow |-> p4 \div Digit > 0]

\* a JSON number that is a u64, and Value::as_u64
UInt(n) == [type |-> "u64", str |-> "", n |-> n]

NoneU64 == [some |-> FALSE, n |-> U64(0)]

as_u64(v) == IF v.type = "u64" THEN [some |-> TRUE, n |-> v.n] ELSE NoneU64

or_else_u64(a, b) == IF a.some THEN a ELSE b

first_u64(json, k1, k2) ==
    or_else_u64(as_u64(json_index(json, k1)), as_u64(json_index(json, k2)))

\* Value::get(key).is_some(): the key is in the object, whatever its value
has_key(json, key) == json[key].type # "absent"

SpanKeys ==
    {"span_id", "spanId", "trace_id", "traceId", "operation", "operation_name",
     "method", "start_time", "startTime", "end_time", "endTime", "duration_ms",
     "duration", "status", "span_status"}

\* the decoded objects of the structured lines, a textual line, and a line
\* that starts with "{" and is no JSON
SpanLines ==
    {[kind |-> "object",
      json |-> [k \in SpanKeys |->
                  IF k \in DOMAIN r THEN r[k]
                  ELSE IF k = "spanId" THEN v.spanId
                  ELSE IF k = "traceId" THEN v.traceId
                  ELSE IF k = "duration" THEN v.duration
                  ELSE IF k = "span_status" THEN v.span_status
                  ELSE Absent]] :
       r \in [span_id     : {Absent, Null, Str("def")},
              trace_id    : {Absent, Number, Str("abc")},
              operation   : {Absent, Str("database_query")},
              start_time  : {Absent, UInt(U64(0)), UInt(U64(9))},
              end_time    : {Absent, UInt(U64(7)), UInt(U64_MAX)},
              duration_ms : {Absent, Number, UInt(U64(150))},
              status      : {Absent, Str("error")}],
       v \in [spanId      : {Absent, Str("s2")},
              traceId     : {Absent, Str("xyz")},
              duration    : {Absent, UInt(U64(9))},
              span_status : {Absent, Str("canceled")}]}
    \cup {[kind |-> k, json |-> [key \in SpanKeys |-> Absent]] : k \in {"text", "broken"}}

\* crate::telemetry::current_timestamp() at the time of the call
NowChoices == {U64(6)}

Generated == [some |-> FALSE, s |-> "generated"]    \* a fresh random identifier

NoSpan == [trace_id |-> NoneStr, span_id |-> NoneStr, operation_name |-> "",
           start_time |-> U64(0), end_time |-> U64(0), duration_ms |-> U64(0),
           status |-> "none"]

SpanResult(kind, span) == [kind |-> kind, span |-> span]

\* JsonLogParser::parse_span on the decoded object
JsonLogParser_span(line, now, overflow_checks) ==
    IF line.kind # "object" THEN SpanResult("Err", NoSpan)
    ELSE IF ~has_key(line.json, "span_id") /\ ~has_key(line.json, "spanId")
    THEN SpanResult("None", NoSpan)
    ELSE LET json == line.json
             trace_id == or_else(or_else(as_str(json_index(json, "trace_id")),
                                         as_str(json_index(json, "traceId"))),
                                 Generated)
             span_id == or_else(or_else(as_str(json_index(json, "span_id")),
                                        as_str(json_index(json, "spanId"))),
                                Generated)
             operation_name ==
                 unwrap_or(first_str(json, "operation", "operation_name", "method"),
                           "unknown")
             start == first_u64(json, "start_time", "startTime")
             start_time == IF start.some THEN start.n ELSE now
             end == first_u64(json, "end_time", "endTime")
             end_time == IF end.some THEN end.n ELSE start_time
             given == first_u64(json, "duration_ms", "duration")
             computed == u64_mul(saturating_sub(end_time, start_time), 1000)
             status == unwrap_or(or_else(as_str(json_index(json, "status")),
                                         as_str(json_index(json, "span_status"))),
                                 "OK")
         IN  IF ~given.some /\ computed.overflow /\ overflow_checks
             THEN SpanResult("panicked", NoSpan)
             ELSE SpanResult("Some",
                    [trace_id |-> trace_id, span_id |-> span_id,
                     operation_name |-> operation_name,
                     start_time |-> start_time, end_time |-> end_time,
                     duration_ms |-> IF given.some THEN given.n ELSE computed.low,
                     status |-> SpanStatus_from(chars_of(status))])

\* RegexLogParser::parse_span
RegexLogParser_span(line, now, overflow_checks) == SpanResult("None", NoSpan)

\* CompositeLogParser::parse_span: the line's first non-blank character decides
CompositeLogParser_span(line, now, overflow_checks) ==
    IF line.kind \in {"object", "broken"}
    THEN JsonLogParser_span(line, now, overflow_checks)
    ELSE SpanResult("None", NoSpan)

parse_span(format, line, now, overflow_checks) ==
    CASE format = "json"  -> JsonLogParser_span(line, now, overflow_checks)
      [] format = "regex" -> RegexLogParser_span(line, now, overflow_checks)
      [] OTHER            -> CompositeLogParser_span(line, now, overflow_checks)

InitSpan ==
    /\ mode = "plain"
    /\ config = [max_size |-> 1, batch_size |-> 1]
    /\ buffers = [n \in BufferNames |->
                    IF n = "plain" THEN TelemetryBuffer_new(1, 1)
                    ELSE TelemetryBuffer_new(0, 0)]
    /\ nextId = 1
    /\ hist = [n \in BufferNames |-> [k \in QueueNames |-> EmptyHist]]
    /\ lastOp = NoOp
    /\ transport = [max_retries |-> 0, retry_backoff_ms |-> 0]
    /\ send = NoSend
    /\ file = [exists |-> FALSE, content |-> <<>>, gen |-> 0]
    /\ file_state = [last_position |-> 0, last_modified |-> 0]
    /\ tail = [pc |-> "tick", consecutive_errors |-> 0, start_position |-> 0]
    /\ tailHist = [lastTick |-> [result |-> "none", cause |-> "none"], written |-> 0]
    /\ flush = NoFlush
    /\ lock = NoLock
    /\ io = NoIo
    /\ parse \in [pc : {"span_line"}, line : SpanLines, overflow_checks : BOOLEAN,
                  variant : {"none"}, result : {SpanResult("None", NoSpan)}]

\* parse_span of one parser variant on the line
ParseSpan ==
    /\ parse.pc = "span_line"
    /\ \E format \in ParserVariants, now \in NowChoices :
         parse' = [parse EXCEPT
                     !.pc = "span_parsed",
                     !.variant = format,
                     !.result = parse_span(format, parse.line, now,
                                           parse.overflow_checks)]
    /\ UNCHANGED <<bufVars, txVars, tailVars, flush, lock, io>>

NextSpan == ParseSpan

(***************************************************************************)
(* PriorityTelemetryBuffer with the records' contents (buffer.rs:206-221,  *)
(* 247-268, 284-291): add_log with the caller's flag, and a stats call.    *)
(* stats awaits utilization for its last field and utilization awaits      *)
(* stats for its first statement; neither reaches its return expression    *)
(* before the other returns.  The depth of the calls is counted up to      *)
(* MaxDepth.                                                               *)
(***************************************************************************)
MaxPriorityRecords == 2     \* records enqueued in one behaviour

MaxDepth == 3               \* nested stats calls told apart

LogEntries ==
    [level : {"Info", "Error"},
     message : {"Normal message", "Error message", "Security ALERT raised",
                "disk is critically low"}]

\* str::contains
contains(s, sub) ==
    \E i \in 0..(Len(s) - Len(sub)) : SubSeq(s, i + 1, i + Len(sub)) = sub

\* is_high_priority_log
is_high_priority_log(log_entry) ==
    \/ log_entry.level \in {"Error", "Fatal"}
    \/ contains(to_lowercase(chars_of(log_entry.message)), chars_of("critical"))
    \/ contains(to_lowercase(chars_of(log_entry.message)), chars_of("security"))
    \/ contains(to_lowercase(chars_of(log_entry.message)), chars_of("alert"))

NoStats == [pc |-> "idle", depth |-> 0, hp_logs |-> 0, hp_spans |-> 0,
            np_logs |-> 0, np_spans |-> 0]

InitPriority ==
    /\ mode = "priority"
    /\ config = [max_size |-> 8, batch_size |-> 2]
    /\ buffers = [n \in BufferNames |->
                    IF n = "plain" THEN TelemetryBuffer_new(0, 0)
                    ELSE PriorityTelemetryBuffer_new(config)[n]]
    /\ nextId = 1
    /\ hist = [n \in BufferNames |-> [k \in QueueNames |-> EmptyHist]]
    /\ lastOp = NoOp
    /\ transport = [max_retries |-> 0, retry_backoff_ms |-> 0]
    /\ send = NoSend
    /\ file = [exists |-> FALSE, content |-> <<>>, gen |-> 0]
    /\ file_state = [last_position |-> 0, last_modified |-> 0]
    /\ tail = [pc |-> "tick", consecutive_errors |-> 0, start_position |-> 0]
    /\ tailHist = [lastTick |-> [result |-> "none", cause |-> "none"], written |-> 0]
    /\ flush = NoFlush
    /\ lock = NoStats
    /\ parse = NoParse
    /\ io = NoIo

\* PriorityTelemetryBuffer::add_log(log_entry, high_priority)
PriorityAddEntry ==
    /\ nextId <= MaxPriorityRecords
    /\ \E log_entry \in LogEntries, high_priority \in BOOLEAN :
         LET n == priority_target(high_priority)
         IN  /\ buffers' = [buffers EXCEPT ![n] = add_log(@, nextId)]
             /\ lastOp' = [op |-> "padd", buf |-> n, id |-> nextId,
                           log_entry |-> log_entry, high_priority |-> high_priority]
    /\ nextId' = nextId + 1
    /\ UNCHANGED <<mode, config, hist, txVars, tailVars, flush, lock, parse, io>>

\* a caller awaits PriorityTelemetryBuffer::stats
StatsCall ==
    /\ lock.pc = "idle"
    /\ lock' = [lock EXCEPT !.pc = "stats", !.depth = 1]
    /\ UNCHANGED <<bufVars, txVars, tailVars, flush, parse, io>>

\* stats: the sizes of both inner buffers, then the call of utilization
Stats ==
    /\ lock.pc = "stats"
    /\ lock' = [lock EXCEPT !.pc = "utilization",
                            !.hp_logs = sizes(buffers["high"])[1],
                            !.hp_spans = sizes(buffers["high"])[2],
                            !.np_logs = sizes(buffers["normal"])[1],
                            !.np_spans = sizes(buffers["normal"])[2]]
    /\ UNCHANGED <<bufVars, txVars, tailVars, flush, parse, io>>

\* utilization: the call of stats
Utilization ==
    /\ lock.pc = "utilization"
    /\ lock' = [lock EXCEPT !.pc = "stats", !.depth = Min(@ + 1, MaxDepth)]
    /\ UNCHANGED <<bufVars, txVars, tailVars, flush, parse, io>>

NextPriority ==
    \/ PriorityAddEntry
    \/ StatsCall
    \/ Stats
    \/ Utilization

(***************************************************************************)
(* EnhancedTransport and its TransportMetrics (transport.rs:222-361).      *)
(* Every counter is behind its own lock, so every increment and every      *)
(* write of reset is a step of its own.  send holds the counters and the   *)
(* position of each caller.                                                *)
(***************************************************************************)
Senders == {"s1", "s2"}

MaxSends == 2       \* send_batch calls started in one behaviour

MaxResets == 1      \* reset_metrics calls started in one behaviour

IdleSender == [pc |-> "idle", result |-> "none", incremented |-> {}]

\* TransportMetrics::snapshot: success_rate, in whole percent
success_rate(m) == IF m.attempts > 0 THEN (m.successes * 100) \div m.attempts ELSE 0

\* the caller of EnhancedTransport::metrics: where it is in snapshot, the
\* values it has read, and whether a snapshot has been returned
NoSnapshot ==
    [pc |-> "idle", attempts |-> 0, successes |-> 0, failures |-> 0, recorded |-> 0,
     returned |-> FALSE]

InitMetrics ==
    /\ mode = "plain"
    /\ config = [max_size |-> 0, batch_size |-> 0]
    /\ buffers = [n \in BufferNames |-> TelemetryBuffer_new(0, 0)]
    /\ nextId = 1
    /\ hist = [n \in BufferNames |-> [k \in QueueNames |-> EmptyHist]]
    /\ lastOp = NoOp
    /\ transport \in [max_retries : {0, U64Bits + 1}, retry_backoff_ms : {0}]
    /\ send \in [attempts : {0}, successes : {0}, failures : {0}, recorded : {0},
                 overflow_checks : BOOLEAN,
                 callers : {[s \in Senders |-> IdleSender]},
                 reset : {"idle"}, started : {0}, completed : {0}, resets : {0},
                 snapshot : {NoSnapshot}]
    /\ file = [exists |-> FALSE, content |-> <<>>, gen |-> 0]
    /\ file_state = [last_position |-> 0, last_modified |-> 0]
    /\ tail = [pc |-> "tick", consecutive_errors |-> 0, start_position |-> 0]
    /\ tailHist = [lastTick |-> [result |-> "none", cause |-> "none"], written |-> 0]
    /\ flush = NoFlush
    /\ lock = NoLock
    /\ parse = NoParse
    /\ io = NoIo

\* EnhancedTransport::send_batch up to self.metrics.increment_attempts().await
IncrementAttempts(s) ==
    /\ send.callers[s].pc = "idle"
    /\ send.started < MaxSends
    /\ send' = [send EXCEPT !.attempts = @ + 1, !.started = @ + 1,
                            !.callers[s] = [pc |-> "http", result |-> "none",
                                            incremented |-> {"attempts"}]]
    /\ UNCHANGED <<transport, bufVars, tailVars, restVars>>

\* self.transport.send_batch(batch).await ends: Ok, Err, or a panic
TransportSendBatch(s) ==
    /\ send.callers[s].pc = "http"
    /\ \E r \in send_batch_results(transport, send.overflow_checks) :
         send' = [send EXCEPT !.callers[s].pc = IF r = "panicked" THEN "panicked"
                                                ELSE "record",
                              !.callers[s].result = r]
    /\ UNCHANGED <<transport, bufVars, tailVars, restVars>>

\* record_success / record_failure up to drop(successes) / drop(failures)
Record(s) ==
    /\ send.callers[s].pc = "record"
    /\ send' = IF send.callers[s].result = "Ok"
               THEN [send EXCEPT !.successes = @ + 1,
                                 !.callers[s].pc = "duration",
                                 !.callers[s].incremented = @ \cup {"successes"}]
               ELSE [send EXCEPT !.failures = @ + 1,
                                 !.callers[s].pc = "duration",
                                 !.callers[s].incremented = @ \cup {"failures"}]
    /\ UNCHANGED <<transport, bufVars, tailVars, restVars>>

\* update_duration_stats, and send_batch returns
UpdateDurationStats(s) ==
    /\ send.callers[s].pc = "duration"
    /\ send' = [send EXCEPT !.recorded = @ + 1, !.completed = @ + 1,
                            !.callers[s].pc = "idle"]
    /\ UNCHANGED <<transport, bufVars, tailVars, restVars>>

\* TransportMetrics::reset, one write after the other
ResetAttempts ==
    /\ send.reset = "idle"
    /\ send.resets < MaxResets
    /\ send' = [send EXCEPT !.attempts = 0, !.reset = "successes", !.resets = @ + 1]
    /\ UNCHANGED <<transport, bufVars, tailVars, restVars>>

ResetSuccesses ==
    /\ send.reset = "successes"
    /\ send' = [send EXCEPT !.successes = 0, !.reset = "failures"]
    /\ UNCHANGED <<transport, bufVars, tailVars, restVars>>

ResetFailures ==
    /\ send.reset = "failures"
    /\ send' = [send EXCEPT !.failures = 0, !.reset = "durations"]
    /\ UNCHANGED <<transport, bufVars, tailVars, restVars>>

ResetDurations ==
    /\ send.reset = "durations"
    /\ send' = [send EXCEPT !.recorded = 0, !.reset = "idle"]
    /\ UNCHANGED <<transport, bufVars, tailVars, restVars>>

\* TransportMetrics::snapshot, one read lock after the other: attempts
SnapshotAttempts ==
    /\ send.snapshot.pc = "idle"
    /\ send' = [send EXCEPT !.snapshot = [NoSnapshot EXCEPT !.pc = "successes",
                                                            !.attempts = send.attempts]]
    /\ UNCHANGED <<transport, bufVars, tailVars, restVars>>

SnapshotSuccesses ==
    /\ send.snapshot.pc = "successes"
    /\ send' = [send EXCEPT !.snapshot.pc = "failures",
                            !.snapshot.successes = send.successes]
    /\ UNCHANGED <<transport, bufVars, tailVars, restVars>>

SnapshotFailures ==
    /\ send.snapshot.pc = "failures"
    /\ send' = [send EXCEPT !.snapshot.pc = "durations",
                            !.snapshot.failures = send.failures]
    /\ UNCHANGED <<transport, bufVars, tailVars, restVars>>

\* the three duration reads, and snapshot returns what it has read
SnapshotDurations ==
    /\ send.snapshot.pc = "durations"
    /\ send' = [send EXCEPT !.snapshot.pc = "idle",
                            !.snapshot.recorded = send.recorded,
                            !.snapshot.returned = TRUE]
    /\ UNCHANGED <<transport, bufVars, tailVars, restVars>>

NextMetrics ==
    \/ \E s \in Senders : IncrementAttempts(s)
    \/ \E s \in Senders : TransportSendBatch(s)
    \/ \E s \in Senders : Record(s)
    \/ \E s \in Senders : UpdateDurationStats(s)
    \/ ResetAttempts
    \/ ResetSuccesses
    \/ ResetFailures
    \/ ResetDurations
    \/ SnapshotAttempts
    \/ SnapshotSuccesses
    \/ SnapshotFailures
    \/ SnapshotDurations

(***************************************************************************)
(* The reporting API (reporting-metrics/api/src/controllers/service.rs,    *)
(* services/monitoring.rs, state.rs).  AppState holds the registered       *)
(* services and the metrics cache, each behind its own Mutex; request      *)
(* handlers run on the server's workers while the background collector     *)
(* loops.  A step is what runs under one lock.  io holds the two           *)
(* collections, the collector's position and the remove handler's.         *)
(***************************************************************************)
ServiceNames == {"a", "b"}

MaxServiceOps == 4      \* register and remove requests in one behaviour

\* Vec::retain(|s| s.name != name)
retain_others(services, name) == SelectSeq(services, LAMBDA s : s # name)

InitReporting ==
    /\ mode = "plain"
    /\ config = [max_size |-> 0, batch_size |-> 0]
    /\ buffers = [n \in BufferNames |-> TelemetryBuffer_new(0, 0)]
    /\ nextId = 1
    /\ hist = [n \in BufferNames |-> [k \in QueueNames |-> EmptyHist]]
    /\ lastOp = NoOp
    /\ transport = [max_retries |-> 0, retry_backoff_ms |-> 0]
    /\ send = NoSend
    /\ file = [exists |-> FALSE, content |-> <<>>, gen |-> 0]
    /\ file_state = [last_position |-> 0, last_modified |-> 0]
    /\ tail = [pc |-> "tick", consecutive_errors |-> 0, start_position |-> 0]
    /\ tailHist = [lastTick |-> [result |-> "none", cause |-> "none"], written |-> 0]
    /\ flush = NoFlush
    /\ lock = NoLock
    /\ parse = NoParse
    /\ io = [services |-> <<>>, cache |-> {},
             collector |-> [pc |-> "sleeping", todo |-> <<>>],
             remover |-> [pc |-> "idle", name |-> "none"],
             removed |-> {}, requests |-> 0, last_response |-> "none"]

\* register_service: BadRequest for a name already there, else push
register_service(name) ==
    /\ io.requests < MaxServiceOps
    /\ IF name \in Range(io.services)
       THEN io' = [io EXCEPT !.requests = @ + 1, !.last_response = "BadRequest"]
       ELSE io' = [io EXCEPT !.services = Append(@, name),
                            !.removed = @ \ {name},
                            !.requests = @ + 1, !.last_response = "Ok"]
    /\ UNCHANGED <<bufVars, txVars, tailVars, flush, lock, parse>>

\* remove_service, its first block: retain under the services lock, NotFound
\* when nothing was removed
remove_service_services(name) ==
    /\ io.requests < MaxServiceOps
    /\ io.remover.pc = "idle"
    /\ IF name \notin Range(io.services)
       THEN io' = [io EXCEPT !.requests = @ + 1, !.last_response = "NotFound"]
       ELSE io' = [io EXCEPT !.services = retain_others(@, name),
                            !.remover = [pc |-> "cache", name |-> name],
                            !.requests = @ + 1]
    /\ UNCHANGED <<bufVars, txVars, tailVars, flush, lock, parse>>

\* remove_service, its second block: remove under the cache lock, return Ok
remove_service_cache ==
    /\ io.remover.pc = "cache"
    /\ io' = [io EXCEPT !.cache = @ \ {io.remover.name},
                        !.remover = [pc |-> "idle", name |-> "none"],
                        !.removed = IF io.remover.name \in Range(io.services)
                                    THEN @ ELSE @ \cup {io.remover.name},
                        !.last_response = "Ok"]
    /\ UNCHANGED <<bufVars, txVars, tailVars, flush, lock, parse>>

\* metrics_collector: the sleep ends and the cycle clones the service list
metrics_collector_cycle ==
    /\ io.collector.pc = "sleeping"
    /\ io.services # <<>>
    /\ io' = [io EXCEPT !.collector = [pc |-> "checking", todo |-> io.services]]
    /\ UNCHANGED <<bufVars, txVars, tailVars, flush, lock, parse>>

\* metrics_collector: check_service of the next cloned entry returns and its
\* metrics are inserted under the cache lock
metrics_collector_insert ==
    /\ io.collector.pc = "checking"
    /\ io' = [io EXCEPT !.cache = @ \cup {Head(io.collector.todo)},
                        !.collector =
                           IF Len(io.collector.todo) = 1
                           THEN [pc |-> "sleeping", todo |-> <<>>]
                           ELSE [pc |-> "checking", todo |-> Tail(io.collector.todo)]]
    /\ UNCHANGED <<bufVars, txVars, tailVars, flush, lock, parse>>

NextReporting ==
    \/ \E name \in ServiceNames : register_service(name)
    \/ \E name \in ServiceNames : remove_service_services(name)
    \/ remove_service_cache
    \/ metrics_collector_cycle
    \/ metrics_collector_insert

(***************************************************************************)
(* Severity normalisation on its own (telemetry.rs:44-56): the strings it *)
(* is given are the keywords, near misses and other words, in lower,       *)
(* upper, capitalised and alternating case.                                *)
(***************************************************************************)
LevelWords ==
    {"trace", "verbose", "debug", "info", "information", "warn", "warning", "err",
     "error", "fatal", "critical", "bogus", "errors", " error", "inf", "warns", ""}

CaseMasks == {"lower", "upper", "capital", "alternating"}

capital_of(c) ==
    IF \E i \in 1..Len(LowerLetters) : LowerLetters[i] = c
    THEN UpperLetters[CHOOSE i \in 1..Len(LowerLetters) : LowerLetters[i] = c]
    ELSE c

with_case(cs, mask) ==
    [i \in 1..Len(cs) |->
       IF \/ mask = "upper"
          \/ mask = "capital" /\ i = 1
          \/ mask = "alternating" /\ i % 2 = 0
       THEN capital_of(cs[i]) ELSE cs[i]]

LevelInputs == {with_case(chars_of(w), m) : w \in LevelWords, m \in CaseMasks}

InitLevel ==
    /\ mode = "plain"
    /\ config = [max_size |-> 1, batch_size |-> 1]
    /\ buffers = [n \in BufferNames |->
                    IF n = "plain" THEN TelemetryBuffer_new(1, 1)
                    ELSE TelemetryBuffer_new(0, 0)]
    /\ nextId = 1
    /\ hist = [n \in BufferNames |-> [k \in QueueNames |-> EmptyHist]]
    /\ lastOp = NoOp
    /\ transport = [max_retries |-> 0, retry_backoff_ms |-> 0]
    /\ send = NoSend
    /\ file = [exists |-> FALSE, content |-> <<>>, gen |-> 0]
    /\ file_state = [last_position |-> 0, last_modified |-> 0]
    /\ tail = [pc |-> "tick", consecutive_errors |-> 0, start_position |-> 0]
    /\ tailHist = [lastTick |-> [result |-> "none", cause |-> "none"], written |-> 0]
    /\ flush = NoFlush
    /\ lock = NoLock
    /\ io = NoIo
    /\ parse \in [pc : {"level"}, s : LevelInputs, level : {"none"}]

\* LogLevel::from(s)
LevelFrom ==
    /\ parse.pc = "level"
    /\ parse' = [parse EXCEPT !.pc = "level_done", !.level = LogLevel_from(parse.s)]
    /\ UNCHANGED <<bufVars, txVars, tailVars, flush, lock, io>>

NextLevel == LevelFrom

(***************************************************************************)
(* Specifications                                                          *)
(***************************************************************************)
SpecBuffer == InitBuffer /\ [][NextBuffer]_vars

SpecSend == InitSend /\ [][NextSend]_vars

SpecTail == InitTail /\ [][NextTail]_vars

SpecFlush == InitFlush /\ [][NextFlush]_vars

SpecIo == InitIo /\ [][NextIo]_vars

SpecParse == InitParse /\ [][NextParse]_vars

SpecLevel == InitLevel /\ [][NextLevel]_vars

SpecSpan == InitSpan /\ [][NextSpan]_vars

SpecPriority == InitPriority /\ [][NextPriority]_vars

SpecMetrics == InitMetrics /\ [][NextMetrics]_vars

SpecReporting == InitReporting /\ [][NextReporting]_vars

SpecPriorityFair ==
    /\ InitPriority
    /\ [][NextPriority]_vars
    /\ WF_vars(Stats)
    /\ WF_vars(Utilization)

\* the executor keeps running every task that can take a step
SpecLock ==
    /\ InitLock
    /\ [][NextLock]_vars
    /\ \A t \in LockTasks : WF_vars(TaskStep(t))

\* every started step of the two flushing tasks is eventually taken
SpecFlushFair ==
    /\ InitFlush
    /\ [][NextFlush]_vars
    /\ \A t \in FlushTasks : WF_vars(FlushDrain(t)) /\ WF_vars(FlushSend(t))

\* the tail task's interval tick, its read and the end of its pause always come
SpecTailFair ==
    /\ InitTail
    /\ [][NextTailAppendOnly]_vars
    /\ WF_vars(Tick)
    /\ WF_vars(ReadFile)
    /\ WF_vars(PauseElapsed)

\* the tail task under fair scheduling, on a file that is also truncated,
\* removed and created again
SpecTailRotatingFair ==
    /\ InitTail
    /\ [][NextTail]_vars
    /\ WF_vars(Tick)
    /\ WF_vars(ReadFile)
    /\ WF_vars(PauseElapsed)

(***************************************************************************)
(* Claims about the buffer, checked under SpecBuffer                       *)
(***************************************************************************)
Last(q) == q[Len(q)]

\* the last n elements of q
Suffix(q, n) == SubSeq(q, Len(q) - n + 1, Len(q))

\* C1: no queue ever holds more records than its cap (both queues of a plain
\* buffer; high queues capped at cap/4 and normal queues at 3*cap/4 in a
\* priority buffer).
C1_QueueWithinCap ==
    \A n \in Owned : \A k \in QueueNames : Len(buffers[n][k]) <= buffers[n].max_size

\* C6: with batch_size >= 1, a priority drain returns a high-priority batch
\* whenever the high buffer holds a record, and a normal batch only when the
\* high buffer is empty.
C6_HighPriorityFirst ==
    (config.batch_size >= 1 /\ lastOp.op = "pdrain") =>
        /\ lastOp.highHeld > 0 => lastOp.source = "high"
        /\ lastOp.source = "normal" => lastOp.highHeld = 0

C8_DropOldest ==
    /\ lastOp.op = "add" =>
         /\ Len(buffers[lastOp.buf][lastOp.queue]) >= 1
         /\ Last(buffers[lastOp.buf][lastOp.queue]) = lastOp.id
         /\ lastOp.lenBefore >= buffers[lastOp.buf].max_size =>
              (Len(lastOp.evicted) = 1 /\ lastOp.evicted = lastOp.headBefore)
         /\ lastOp.lenBefore < buffers[lastOp.buf].max_size => lastOp.evicted = <<>>
    /\ \A n \in Owned : \A k \in QueueNames :
         LET h == hist[n][k]
             c == buffers[n].max_size
         IN  (h.drained = <<>> /\ h.cleared = <<>>) =>
                /\ buffers[n][k] = Suffix(h.enq, Min(Len(h.enq), c))
                /\ Len(h.dropped) = Max(0, Len(h.enq) - c)

\* C9: each queue is FIFO: the drained batches, concatenated, followed by the
\* records still queued, are the enqueued records that were neither dropped
\* by overflow nor cleared, in enqueue order.
C9_Fifo ==
    \A n \in Owned : \A k \in QueueNames :
        LET h == hist[n][k]
        IN  h.drained \o buffers[n][k] =
                SelectSeq(h.enq, LAMBDA x : x \notin Range(h.dropped) \cup Range(h.cleared))

\* C9 witness: two successive drains of one queue after an overflow, with a record left
C9_Witness ==
    /\ Len(hist["plain"].logs.drained) >= 2
    /\ Len(hist["plain"].logs.dropped) >= 1
    /\ Len(buffers["plain"].logs) >= 1
    /\ buffers["plain"].batch_size = 1

\* C25: should_flush answers true exactly when the log queue or the span
\* queue holds at least batch_size records or more than 75% of max_size; for
\* an empty buffer it answers false.
C25_ShouldFlush ==
    lastOp.op = "should_flush" /\ lastOp.buf = "plain" =>
      LET b == buffers["plain"]
          full(q) == Len(q) >= b.batch_size \/ 4 * Len(q) > 3 * b.max_size
      IN  /\ lastOp.result <=> (full(b.logs) \/ full(b.spans))
          /\ Len(b.logs) = 0 /\ Len(b.spans) = 0 => ~lastOp.result

(***************************************************************************)
(* Claims about the priority buffer, checked under SpecPriority and        *)
(* SpecPriorityFair                                                        *)
(***************************************************************************)
\* C26: the priority buffer's add_log puts a record of severity Error or
\* Fatal, or with critical, security or alert in its message in any case,
\* into the high-priority queue, and every other record into the normal queue.
C26_RoutedByClassification ==
    lastOp.op = "padd" =>
      LET n == IF is_high_priority_log(lastOp.log_entry) THEN "high" ELSE "normal"
      IN  /\ lastOp.buf = n
          /\ lastOp.id \in Range(buffers[n].logs)

\* C27: a stats call returns, with the lengths the four queues have.
C27_StatsReturns ==
    (lock.pc = "stats" /\ lock.depth = 1) ~>
        (/\ lock.pc = "returned"
         /\ lock.hp_logs = Len(buffers["high"].logs)
         /\ lock.np_logs = Len(buffers["normal"].logs)
         /\ lock.hp_spans = Len(buffers["high"].spans)
         /\ lock.np_spans = Len(buffers["normal"].spans))

(***************************************************************************)
(* Claims about the transport, checked under SpecSend                      *)
(***************************************************************************)
\* C10: send_batch makes at most max_retries + 1 attempts; it returns success
\* at the first successful attempt and attempts nothing further; when every
\* attempt fails it makes exactly max_retries + 1 attempts and then returns
\* the last error, every failure class being retried alike.
C10_RetryCount ==
    /\ send.attempts <= transport.max_retries + 1
    /\ send.successes <= 1
    /\ send.successes = 1 => (send.pc = "returned" /\ send.result = "Ok")
    /\ send.result = "Ok" => send.successes = 1
    /\ (send.successes = 0 /\ send.failures >= 1 /\ send.failures <= transport.max_retries)
          => send.pc \in {"sleeping", "loop"}
    /\ (send.successes = 0 /\ send.pc \in {"returned", "panicked"}) =>
          /\ send.pc = "returned"
          /\ send.attempts = transport.max_retries + 1
          /\ send.result = send.last_error

\* two delays given as mantissa * 2^exp are the same number of milliseconds
SameDelay(a, b) == (a.mantissa = 0 /\ b.mantissa = 0) \/ a = b

\* C11: the delay slept before the n-th retry is exactly
\* retry_backoff_ms * 2^(n-1) ms; a delay is slept between every two
\* consecutive attempts, and none after the final failed attempt
C11_BackoffDelay ==
    /\ send.pc # "panicked"
    /\ send.pc = "sleeping" =>
          SameDelay(send.last_sleep,
                    [mantissa |-> transport.retry_backoff_ms, exp |-> send.attempt - 1])
    /\ send.pc \in {"sleeping", "loop"} => send.sleeps = send.failures
    /\ (send.pc = "returned" /\ send.result = "Ok") => send.sleeps = send.failures
    /\ (send.pc = "returned" /\ send.result # "Ok") => send.sleeps = send.failures - 1

\* C12: every attempt of one send_batch call transmits the batch it was
\* called with: the same batch id, logs and spans at the first attempt and at
\* every retry
C12_SameBatchEveryAttempt ==
    /\ \A body \in send.sent :
         /\ body.batch_id = send.batch.batch_id
         /\ body.logs = send.batch.logs
         /\ body.spans = send.batch.spans
    /\ send.attempts >= 1 => send.sent # {}

\* a retry has been made of a batch that has logs and spans
C12_Witness ==
    /\ send.attempts >= 2
    /\ send.batch.spans # <<>>
    /\ send.batch.logs # <<>>
    /\ send.sent # {}

(***************************************************************************)
(* Claims about the transport's metrics, checked under SpecMetrics         *)
(***************************************************************************)
in_flight(s) == send.callers[s].pc \in {"http", "record", "duration"}

\* C28: before any send the counters are zero and the success rate is 0; a
\* send_batch call that has returned has incremented attempts and exactly one
\* of successes and failures; whenever no send is in flight,
\* attempts = successes + failures.
C28_MetricsCountBatches ==
    /\ send.started = 0 /\ send.resets = 0 =>
         /\ send.attempts = 0 /\ send.successes = 0 /\ send.failures = 0
         /\ success_rate(send) = 0
    /\ \A s \in Senders :
         send.callers[s].pc = "idle" /\ send.callers[s].result # "none" =>
           send.callers[s].incremented \in {{"attempts", "successes"},
                                            {"attempts", "failures"}}
    /\ (\A s \in Senders : ~in_flight(s)) =>
         send.attempts = send.successes + send.failures

(***************************************************************************)
(* Claims about the flush loop and shutdown, checked under SpecFlush       *)
(***************************************************************************)
\* C13: when send_batch returned Err for a batch after its final retry, the
\* batch is dropped (its records are not in the buffer again and are never
\* handed to the transport a second time), every other batch of the same
\* flush is still handed to the transport, and the flushing task goes on
C13_FailedBatchDropped ==
    flush.failed # {} =>
        /\ \A id \in flush.failed :
             /\ flush.sent[id] = 1
             /\ id \notin Range(buffers["plain"].logs)
        /\ \A t \in FlushTasks :
             /\ flush.tasks[t].pc # "panicked"
             /\ flush.tasks[t].pc \in {"idle", "done"} =>
                  \A id \in flush.tasks[t].round : flush.sent[id] >= 1

\* the periodic flush finished a round in which one batch failed and a batch
\* drained after it was sent
C13_Witness ==
    /\ flush.tasks["periodic"].pc = "idle"
    /\ \E a \in flush.tasks["periodic"].round, b \in flush.tasks["periodic"].round :
         /\ a < b
         /\ a \in flush.failed
         /\ b \notin flush.failed
         /\ flush.sent[b] = 1

\* C14: the shutdown's one final flush hands every record that was in the
\* buffer when it started to the transport before the shutdown completes,
\* and the shutdown does complete
C14_FinalFlushSendsAll ==
    /\ flush.tasks["shutdown"].pc # "panicked"
    /\ flush.tasks["shutdown"].pc = "done" =>
          \A id \in flush.final.present : flush.sent[id] >= 1

(***************************************************************************)
(* Claims about the buffer's locks, checked under SpecLock                 *)
(***************************************************************************)
holds(t, q) == lock.holders[q].writer = t \/ t \in lock.holders[q].readers

\* C15: drain_batch counts and decides with both queue write locks held; it
\* returns None only when both queues are empty at the instant it returns,
\* and a batch it returns holds at least one record.
C15_DrainDecidesUnderBothLocks ==
    \A t \in LockTasks :
      /\ lock.ops[t].phase = "counted" =>
            /\ lock.holders["logs"].writer = t
            /\ lock.holders["spans"].writer = t
      /\ lock.ops[t].result = "None" => lock.ops[t].empty_at_return
      /\ lock.ops[t].result = "Some" => lock.ops[t].records >= 1

\* a drain has counted a non-empty buffer while another task's add waits
C15_Witness ==
    \E t, u \in LockTasks :
      /\ lock.ops[t].op = "drain_batch"
      /\ lock.ops[t].phase = "counted"
      /\ lock.ops[t].log_count + lock.ops[t].span_count >= 1
      /\ lock.ops[u].op \in {"add_log", "add_span"}
      /\ lock.ops[u].phase = "locking"
      /\ lock.ops[u].held = 0

\* a two-lock operation holding the span lock also holds the log lock
LockOrder ==
    \A t \in LockTasks :
      (Len(lock_order(lock.ops[t].op)) = 2 /\ holds(t, "spans")) => holds(t, "logs")

C17_NoLockAcrossIo ==
    \A t \in IoTasks :
      awaited(io.tasks[t].pc).kind \in {"file", "http"} => io.tasks[t].held = {}

(***************************************************************************)
(* Claims about the parsers, checked under SpecParse                       *)
(***************************************************************************)
\* a parser has been applied to the line and emitted a log record
Emitted == parse.pc \in {"parsed", "processed"} /\ parse.result.kind = "Some"

\* the values a structured line carries under the documented aliases
level_field(line) ==
    unwrap_or(first_str(line.json, "level", "severity", "log_level"), "INFO")

message_field(line) == unwrap_or(first_str(line.json, "message", "msg", "text"), "")

trace_field(line) == first_str(line.json, "trace_id", "traceId", "trace-id")

span_field(line) == first_str(line.json, "span_id", "spanId", "span-id")

\* C18: a log record emitted from a structured line by the structured or the
\* composite parser has the normalised level field as severity, the message
\* field as message, and the line's trace and span identifiers.
C18_RoundTrip ==
    (Emitted /\ parse.line.kind = "object" /\ parse.variant \in {"json", "composite"}) =>
        /\ parse.result.entry.level = LogLevel_from(chars_of(level_field(parse.line)))
        /\ parse.result.entry.message = Message(message_field(parse.line))
        /\ parse.result.entry.trace_id = trace_field(parse.line)
        /\ parse.result.entry.span_id = span_field(parse.line)

\* message, msg and text are each absent or empty
no_message(line) ==
    \A k \in {"message", "msg", "text"} : line.json[k] \in {Absent, Str("")}

\* C19: process_log_line with the composite parser emits no log record for a
\* structured line without a message, and enqueues nothing for it.
C19_NoRecordWithoutMessage ==
    (parse.pc = "processed" /\ parse.line.kind = "object" /\ no_message(parse.line)) =>
        /\ parse.result.kind # "Some"
        /\ buffers["plain"].logs = <<>>

\* the identifiers of a line, for the parser variants that read its format
identifiers(line) ==
    IF line.kind = "object"
    THEN [trace_id |-> trace_field(line), span_id |-> span_field(line)]
    ELSE IF line.text.shape = "spring"
    THEN [trace_id |-> SomeStr(line.text.trace_id), span_id |-> SomeStr(line.text.span_id)]
    ELSE [trace_id |-> NoneStr, span_id |-> NoneStr]

reads_format(variant, line) ==
    \/ variant = "composite"
    \/ variant = "json" /\ line.kind = "object"
    \/ variant = "regex" /\ line.kind = "text"

\* C20: without trace correlation no emitted record has a trace id or a span
\* id; with it, a record has the identifiers of its line.
C20_TraceCorrelation ==
    Emitted =>
        IF parse.trace_correlation
        THEN reads_format(parse.variant, parse.line) =>
                /\ parse.result.entry.trace_id = identifiers(parse.line).trace_id
                /\ parse.result.entry.span_id = identifiers(parse.line).span_id
        ELSE /\ parse.result.entry.trace_id = NoneStr
             /\ parse.result.entry.span_id = NoneStr

\* the severity the keyword table gives a string, compared in lower case
keyword_severity(s) ==
    LET l == to_lowercase(s)
    IN  IF l \in {chars_of("trace"), chars_of("verbose")} THEN "Trace"
        ELSE IF l = chars_of("debug") THEN "Debug"
        ELSE IF l \in {chars_of("info"), chars_of("information")} THEN "Info"
        ELSE IF l \in {chars_of("warn"), chars_of("warning")} THEN "Warn"
        ELSE IF l \in {chars_of("err"), chars_of("error")} THEN "Error"
        ELSE IF l \in {chars_of("fatal"), chars_of("critical")} THEN "Fatal"
        ELSE "Info"

\* C24: severity normalisation gives every string one of the six severities:
\* the keyword's severity whatever the case of its letters, Info otherwise.
\* Checked under SpecLevel.
C24_SeverityNormalisation ==
    parse.pc = "level_done" =>
        /\ parse.level \in {"Trace", "Debug", "Info", "Warn", "Error", "Fatal"}
        /\ parse.level = keyword_severity(parse.s)

\* "wArNiNg" was normalised to Warn
C24_Witness ==
    /\ parse.pc = "level_done"
    /\ parse.s = with_case(chars_of("warning"), "alternating")
    /\ parse.level = "Warn"

\* the characters of a record's message, as far as the line gives them
message_chars(entry, line) ==
    IF entry.message.whole_line THEN line_head(line) ELSE chars_of(entry.message.s)

no_pattern(line) ==
    \A i \in 1..Len(default_patterns) :
       line.kind # "text" \/ default_patterns[i].shape # line.text.shape

\* C23: for a line no pattern matches the textual parser emits a record of
\* severity Info, without trace id and span id, whose message is the whole
\* line; and every record the collector enqueues has a non-empty message.
C23_FallbackAndNonEmpty ==
    /\ parse.pc = "parsed" /\ parse.variant = "regex" /\ no_pattern(parse.line) =>
         /\ parse.result.kind = "Some"
         /\ parse.result.entry.level = "Info"
         /\ parse.result.entry.trace_id = NoneStr
         /\ parse.result.entry.span_id = NoneStr
         /\ parse.result.entry.message = WholeLine
    /\ parse.pc = "processed" /\ parse.result.kind = "Some" =>
         message_chars(parse.result.entry, parse.line) # <<>>
    /\ Len(buffers["plain"].logs) > 0 => parse.pc = "processed" /\ parse.result.kind = "Some"

C23_Witness ==
    /\ parse.pc = "processed"
    /\ parse.line.kind = "text"
    /\ parse.line.text.shape = "plain"
    /\ parse.result.kind = "Some"
    /\ parse.result.entry.message = WholeLine
    /\ Len(buffers["plain"].logs) = 1

(***************************************************************************)
(* Claims about span extraction, checked under SpecSpan                    *)
(***************************************************************************)
span_key(line) ==
    line.kind = "object"
    /\ (has_key(line.json, "span_id") \/ has_key(line.json, "spanId"))

\* the status names and the severities they stand for
status_of(s) ==
    CASE s = "error"    -> "Error"
      [] s = "canceled" -> "Cancelled"
      [] OTHER          -> "Ok"

\* C21: a span is produced from a line exactly when the line is a structured
\* object with the key span_id or spanId; a textual line and the textual parser
\* never produce one; a produced span carries the trace id, span id, operation,
\* duration and normalised status written in the line.
C21_SpanIffSpanKey ==
    parse.pc = "span_parsed" =>
      LET line == parse.line
          json == line.json
          span == parse.result.span
          trace == or_else(as_str(json["trace_id"]), as_str(json["traceId"]))
          id == or_else(as_str(json["span_id"]), as_str(json["spanId"]))
          operation == as_str(json["operation"])
          duration == first_u64(json, "duration_ms", "duration")
          status == or_else(as_str(json["status"]), as_str(json["span_status"]))
      IN  /\ line.kind # "object" => parse.result.kind # "Some"
          /\ parse.variant = "regex" => parse.result.kind = "None"
          /\ parse.variant # "regex" /\ line.kind = "object" =>
               (parse.result.kind = "Some" <=> span_key(line))
          /\ parse.result.kind = "Some" =>
               /\ trace.some => span.trace_id = trace
               /\ id.some => span.span_id = id
               /\ operation.some => span.operation_name = operation.s
               /\ duration.some => span.duration_ms = duration.n
               /\ status.some => span.status = status_of(status.s)

\* the exact product a * 1000, in five digits
times_1000(a) ==
    LET p1 == a[1] * 1000
        p2 == a[2] * 1000 + p1 \div Digit
        p3 == a[3] * 1000 + p2 \div Digit
        p4 == a[4] * 1000 + p3 \div Digit
    IN  <<p1 % Digit, p2 % Digit, p3 % Digit, p4 % Digit, p4 \div Digit>>

\* C22: a span parsed from a line that gives start and end times and no
\* duration field has duration_ms = max(end - start, 0) * 1000; a duration
\* field of the line is kept unchanged.
C22_Duration ==
    parse.pc = "span_parsed" /\ parse.variant # "regex" /\ span_key(parse.line) =>
      LET json == parse.line.json
          start == first_u64(json, "start_time", "startTime")
          end == first_u64(json, "end_time", "endTime")
          given == first_u64(json, "duration_ms", "duration")
          elapsed == IF u64_lt(end.n, start.n) THEN U64(0) ELSE u64_sub(end.n, start.n)
      IN  /\ given.some =>
               /\ parse.result.kind = "Some"
               /\ parse.result.span.duration_ms = given.n
          /\ ~given.some /\ start.some /\ end.some =>
               /\ parse.result.kind = "Some"
               /\ parse.result.span.duration_ms \o <<0>> = times_1000(elapsed)

(***************************************************************************)
(* Claims about the file tailer, checked under SpecTail and SpecTailFair   *)
(***************************************************************************)
\* the line of the file that starts at offset off, as process_log_line receives it
SubmittedLineAt(content, off) == strip_line_ending(LineAt(content, off))

\* C2: while the file is only appended to (its first generation), the line
\* that starts at any offset is submitted to the buffer at most once, over
\* any sequence of ticks, those whose read ends in an error included
C2_NoDuplicateLine ==
    file.gen = 0 => \A off \in 0..MaxFile : tailHist.enq[off] <= 1

\* C3: on a file that is only appended to, under fair scheduling of the tail
\* task, every complete non-blank line of the file is eventually enqueued,
\* whatever lines precede it
C3_EveryLineEnqueued ==
    \A off \in 0..MaxFile :
        [](CompleteNonBlankLineAt(file.content, off) => <>(tailHist.enq[off] >= 1))

\* C4: when the file was truncated or replaced between two ticks, the first
\* read of the new content starts at byte offset zero, whatever the new size
C4_RotationReadsFromZero ==
    (file.gen >= 1 /\ tailHist.first.idle /\ tailHist.first.start # -1)
        => tailHist.first.start = 0

\* C5: no tick fails with a structured-parse error, and for every complete
\* non-blank line of the file neither parse_log nor parse_span of the
\* composite parser returns Err, nor does process_log_line
C5_NoParseFailureSurfaced ==
    /\ tailHist.lastTick.cause # "json"
    /\ \A off \in 0..MaxFile :
         CompleteNonBlankLineAt(file.content, off) =>
           LET l == SubmittedLineAt(file.content, off)
           IN  /\ CompositeLogParser_parse_log(l) # "Err"
               /\ CompositeLogParser_parse_span(l) # "Err"
               /\ ~process_log_line(l).err

\* C29: a tick starts a read exactly when the path exists and the size is
\* below the recorded offset, or the modification time differs from the
\* recorded one, or the size is above the recorded offset; the read starts at
\* 0 when the size is below the recorded offset, the offset being reset to 0
\* and the new modification time recorded, and at the recorded offset
\* otherwise; a tick that starts no read leaves the file state as it was.
C29_TickDecision ==
    [][tail.pc = "tick" /\ file' = file =>
         LET size == Len(file.content)
             offset == file_state.last_position
             scheduled == tail'.pc = "reading"
         IN  /\ scheduled <=>
                  /\ file.exists
                  /\ \/ size < offset
                     \/ modified(file) # file_state.last_modified
                     \/ size > offset
             /\ scheduled =>
                  tail'.start_position = IF size < offset THEN 0 ELSE offset
             /\ scheduled /\ size < offset =>
                  file_state' = [last_position |-> 0, last_modified |-> modified(file)]
             /\ ~scheduled => file_state' = file_state]_vars

\* a read from 0 is under way on the second file, whose modification time the
\* tick recorded when it reset the offset
C29_Witness ==
    /\ tail.pc = "reading"
    /\ tail.start_position = 0
    /\ file.gen = 1
    /\ file_state = [last_position |-> 0, last_modified |-> modified(file)]
    /\ tailHist.first.offset = -1

\* C30: the recorded offset never decreases, except in a tick that finds the
\* size below the recorded offset and resets it to 0; after a read that reaches
\* end-of-file the offset is the read's start offset plus the bytes read, those
\* of blank lines included.
C30_OffsetMonotone ==
    [][/\ file_state'.last_position < file_state.last_position =>
            /\ tail.pc = "tick"
            /\ file' = file
            /\ Len(file.content) < file_state.last_position
            /\ file_state'.last_position = 0
       /\ tail.pc = "reading" /\ tail'.pc # "reading" /\ file.exists
          /\ tailHist'.lastTick.result = "Ok" =>
            file_state'.last_position =
                tail.start_position + Max(Len(file.content) - tail.start_position, 0)]_vars

\* everything of a file with a blank line has been read
C30_Witness ==
    /\ tail.pc = "tick"
    /\ tailHist.lastTick.result = "Ok"
    /\ file.content = <<"x", "\n", "\n">>
    /\ file_state.last_position = 3

\* C31: on a file that is only appended to, every line submitted to the parser
\* starts at the beginning of a line of the file and had its newline read: a
\* line written in two appends is enqueued once, whole.
C31_OnlyCompleteLines ==
    \A off \in 0..MaxFile :
       tailHist.enq[off] >= 1 =>
         /\ off \in LineStarts(file.content)
         /\ off < Len(file.content)
         /\ LineAt(file.content, off)[Len(LineAt(file.content, off))] = "\n"

\* C32: the records of one file are enqueued in file order: a read enqueues
\* its lines by increasing offset, and enqueues no line that lies before a line
\* of the file that was enqueued earlier.
C32_FileOrder ==
    [][tail.pc = "reading" /\ tail'.pc # "reading" /\ file.exists =>
         \E r \in {read_loop(file.content, tail.start_position, 0, <<>>)} :
            \A i \in 1..Len(r.subs) :
               /\ \A j \in 1..(i - 1) : r.subs[j].off < r.subs[i].off
               /\ r.subs[i].log =>
                    \A later \in 0..MaxFile :
                       later > r.subs[i].off => tailHist.enq[later] = 0]_vars

\* C33: the consecutive-error counter never exceeds 10; a failed tick adds one
\* to it and a successful tick sets it to 0; the task pauses exactly when the
\* counter reaches 10, and after the pause the counter is 0 and the task ticks.
C33_ErrorCounter ==
    [][/\ tail.consecutive_errors <= 10
       /\ tail'.consecutive_errors <= 10
       /\ tail'.pc = "paused" <=> tail'.consecutive_errors = 10
       /\ tail.pc = "reading" /\ tail'.pc # "reading" =>
            IF tailHist'.lastTick.result = "Err"
            THEN tail'.consecutive_errors = tail.consecutive_errors + 1
            ELSE tail'.consecutive_errors = 0 /\ tail'.pc = "tick"
       /\ tail.pc = "tick" /\ file' = file /\ tail'.pc # "reading" =>
            tail'.consecutive_errors = 0 /\ tail'.pc = "tick"
       /\ tail.pc = "paused" /\ tail'.pc # "paused" =>
            tail'.consecutive_errors = 0 /\ tail'.pc = "tick"]_vars

\* the task pauses after its tenth consecutive failed tick
C33_Witness == tail.pc = "paused" /\ tail.consecutive_errors = 10

\* C34: whatever error a tick returns, the tail task does not end: it is
\* waiting for its next tick, reading, or pausing, and a read and a pause are
\* each followed by the wait for the next tick.
C34_ErrorsNotFatal ==
    /\ [](tail.pc \in {"tick", "reading", "paused"})
    /\ (tail.pc = "paused") ~> (tail.pc = "tick")
    /\ (tail.pc = "reading") ~> (tail.pc \in {"tick", "paused"})

\* the task waits for its next tick after a read that failed at File::open
C34_Witness ==
    /\ tail.pc = "tick"
    /\ tailHist.lastTick = [result |-> "Err", cause |-> "open"]
    /\ tail.consecutive_errors >= 1


\* C35: a flush_all call on a buffer with batch_size >= 1 that no other task
\* adds to terminates, leaves both queues empty, and the logs and the spans
\* of the batches it returns, concatenated in batch order, are exactly the
\* records that were queued, each once and oldest first.
C35_FlushAllDrainsEverything ==
    lastOp.op = "flush_all" /\ lastOp.batch_size >= 1 =>
       /\ lastOp.terminated
       /\ buffers["plain"].logs = <<>>
       /\ buffers["plain"].spans = <<>>
       /\ concat(lastOp.batches, "logs") = lastOp.logs_before
       /\ concat(lastOp.batches, "spans") = lastOp.spans_before

C35_Witness ==
    /\ lastOp.op = "flush_all"
    /\ lastOp.batch_size >= 1
    /\ Len(lastOp.batches) >= 2
    /\ Len(lastOp.logs_before) >= 2
    /\ Len(lastOp.spans_before) >= 1


\* how many times record id occurs in sequence q
occurrences(q, id) == Len(SelectSeq(q, LAMBDA x : x = id))

\* the batches the flush tasks hold, drained and not yet handed over
held_batches(t) ==
    UNION {Range(flush.tasks[t].batches[i]) : i \in DOMAIN flush.tasks[t].batches}

\* C36: whatever the interleaving of the producers, the periodic flush and
\* the shutdown flush, every record that was enqueued is in exactly one
\* place: still queued, dropped by an overflow, or drained in exactly one
\* batch; and a batch a task holds was drained by that task only.
C36_AccountedOnce ==
    /\ \A id \in 1..(nextId - 1) :
         /\ occurrences(hist["plain"].logs.enq, id) = 1
         /\ occurrences(buffers["plain"].logs, id)
              + occurrences(hist["plain"].logs.dropped, id)
              + occurrences(hist["plain"].logs.drained, id) = 1
    /\ \A id \in Range(hist["plain"].logs.drained) : id \in 1..(nextId - 1)
    /\ held_batches("periodic") \cap held_batches("shutdown") = {}

\* both flushes hold a drained batch and a record was dropped by overflow
\* between the two drains
C36_Witness ==
    /\ held_batches("periodic") # {}
    /\ held_batches("shutdown") # {}
    /\ hist["plain"].logs.dropped # <<>>


\* C37: when start has returned from a shutdown that did not fail, every
\* record of every drained batch has been handed to the transport at least
\* once; in particular the periodic flush task holds no drained batch that
\* still waits to be sent.
C37_DrainedBatchesSent ==
    flush.tasks["shutdown"].pc = "done" =>
       /\ \A id \in Range(hist["plain"].logs.drained) : flush.sent[id] >= 1
       /\ held_batches("periodic") = {}


\* C38: every snapshot that metrics returns is consistent, also when sends
\* run while it is taken: its successes plus its failures do not exceed its
\* attempts, and its success rate does not exceed 100.
C38_SnapshotConsistent ==
    send.snapshot.returned =>
       /\ send.snapshot.successes + send.snapshot.failures <= send.snapshot.attempts
       /\ success_rate(send.snapshot) <= 100


\* C39: for every max_retries and retry_backoff_ms the configuration accepts,
\* the backoff retry_backoff_ms * 2^(attempt - 1) computed before a retry
\* stays within the u64 range, for every attempt 1..max_retries.
C39_BackoffWithinU64 ==
    /\ send.pc # "panicked"
    /\ send.attempt >= 1 /\ retry_allowed(send.attempt, transport.max_retries) =>
          ~backoff_overflows(transport.retry_backoff_ms, send.attempt)


(***************************************************************************)
(* Claims about the reporting API, checked under SpecReporting             *)
(***************************************************************************)
\* C40: once remove_service has returned success for a name and the name has
\* not been registered again, the metrics cache has no entry for that name,
\* also when the background collector is in the middle of a cycle.
C40_RemovedStaysOutOfCache ==
    \A name \in io.removed : name \notin io.cache

====
